---- MODULE Spec2Model ----
(***************************************************************************)
(* Cookie/JWT dual-mode authentication of @lenne.tech/nuxt-extensions.     *)
(*                                                                         *)
(* The module holds four state machines over one set of variables:         *)
(*   SpecFetch   the persistent auth state store (document.cookie) and the *)
(*               authenticated fetch of runtime/lib/auth-state             *)
(*   SpecAuth    the session orchestrator useLtAuth() (second variant of   *)
(*               the composable, the one that is exported)                 *)
(*   SpecClient  the plugin registry and the auth client singleton         *)
(*   SpecHash    the password hashing wrappers of createLtAuthClient and   *)
(*               useSystemSetup().initSetup                                *)
(* Asynchronous operations are split at their network awaits: one action   *)
(* issues the request, another one consumes the response and runs the code *)
(* up to the next await.                                                   *)
(***************************************************************************)
EXTENDS Naturals, Sequences, FiniteSets, TLC

VARIABLES
    docState,    \* document.cookie record "lt-auth-state"
    docToken,    \* document.cookie record "lt-jwt-token"
    authState,   \* useCookie ref "lt-auth-state" of useLtAuth()
    jwtToken,    \* useCookie ref "lt-jwt-token" of useLtAuth()
    af,          \* the ltAuthFetch call in flight (lib layer)
    isLoading,   \* ref isLoading of useLtAuth()
    ops,         \* the loading operations of useLtAuth() that are in flight
    tokenReqs,   \* standalone switchToJwtMode() calls waiting for {apiBase}/token
    fw,          \* the fetchWithAuth call in flight
    ev,          \* history: the operation that settled last, with its outcome
    lastSetUser, \* history: user argument of the last setUser / clearUser
    registry,    \* _ltAuthPluginRegistry
    pluginsChanged, \* _pluginsChangedAfterCreation
    singleton,   \* _authClientSingleton
    lastConfig,  \* _lastClientConfig
    built,       \* history: number of createLtAuthClient calls made so far
    cev,         \* history: last operation on the registry / singleton
    wire,        \* history: last parameters handed to the provider SDK / $fetch
    ic,          \* the 401 interceptor: isHandling401, its timer, the route
    ft,          \* the feature map of useLtAuth() and its requests
    pk,          \* the passkey ceremony in flight, with its result
    cx,          \* the base64url codec: bytes given, text made, bytes read back
    server,      \* import.meta.server: the code runs without a document
    tk,          \* the text of the bearer token record, as written and as read
    tus          \* useLtTusUpload(): the upload items and their transfers

storeVars  == <<docState, docToken, authState, jwtToken>>
authVars   == <<isLoading, ops, tokenReqs, fw, ev, lastSetUser>>
clientVars == <<registry, pluginsChanged, singleton, lastConfig, built, cev>>
extraVars  == <<cx, server, tk, tus>>
sideVars   == <<ic, ft, pk, extraVars>>
vars == <<docState, docToken, authState, jwtToken, af, isLoading, ops, tokenReqs,
          fw, ev, lastSetUser, registry, pluginsChanged, singleton, lastConfig,
          built, cev, wire, ic, ft, pk, cx, server, tk, tus>>

-----------------------------------------------------------------------------
(* Values *)

Users   == {"u1", "u2"}
NoUser  == "null"
Modes   == {"cookie", "jwt"}
Tokens  == {"t1", "t2"}
NoToken == "null"

\* What a request of the caller can end with: an HTTP status, or fetch throws
Statuses == {"200", "401", "500"}
Threw    == "threw"
Outcomes == Statuses \cup {Threw}

\* The AuthState record as stored: absent, unparsable text, or {user, authMode}.
\* (user and authMode of an absent or unparsable record are never read.)
Absent       == [kind |-> "absent", user |-> NoUser, authMode |-> "cookie"]
Malformed    == [kind |-> "malformed", user |-> NoUser, authMode |-> "cookie"]
Record(u, m) == [kind |-> "record", user |-> u, authMode |-> m]
StateRecords == {Record(u, m) : u \in Users \cup {NoUser}, m \in Modes}

\* The bearer token record as stored: absent, JSON-quoted ("t") or raw (t).
TokAbsent  == [kind |-> "absent", val |-> NoToken]
TokJson(t) == [kind |-> "json", val |-> t]
TokRaw(t)  == [kind |-> "raw", val |-> t]
\* (a record whose text cannot be decoded or parsed)
TokMalformed == [kind |-> "malformed", val |-> NoToken]

\* Answers of GET {apiBase}/token: OK with a token, OK without one, not OK,
\* or the request / body parsing throws.
TokenAnswers ==
    {[kind |-> "ok", token |-> t] : t \in Tokens}
        \cup {[kind |-> k, token |-> NoToken] : k \in {"empty", "notOk", "throws"}}

-----------------------------------------------------------------------------
(* Persistent auth state store: runtime/lib/auth-state *)

\* mutant: the parse error of an unparsable record is not caught
getLtAuthMode_uncaught(ds) ==
    CASE ds.kind = "record"    -> ds.authMode
      [] ds.kind = "malformed" -> "SyntaxError"
      [] OTHER                 -> "cookie"

getLtAuthMode(ds) ==
    IF ds.kind = "record" THEN ds.authMode ELSE "cookie"

getLtJwtToken(dt) ==
    IF dt.kind \in {"json", "raw"} THEN dt.val ELSE NoToken

\* the record setLtJwtToken(token) leaves in the store
setLtJwtToken(token) ==
    IF token # NoToken THEN TokJson(token) ELSE TokAbsent

\* mutant: the record is written anew, without the user it held
setLtAuthMode_userDropped(ds, mode) ==
    IF ds.kind = "malformed" THEN ds ELSE Record(NoUser, mode)

\* mutant: the mode of an existing record is not written back
setLtAuthMode_recordKept(ds, mode) ==
    IF ds.kind = "absent" THEN Record(NoUser, mode) ELSE ds

\* the record setLtAuthMode(mode) leaves in the store; JSON.parse of an
\* unparsable record throws, the catch swallows it and nothing is written
setLtAuthMode(ds, mode) ==
    CASE ds.kind = "absent"    -> Record(NoUser, mode)
      [] ds.kind = "record"    -> [ds EXCEPT !.authMode = mode]
      [] ds.kind = "malformed" -> ds

isLtAuthenticated(ds) ==
    ds.kind = "record" /\ ds.user # NoUser

\* mutant: an OK answer counts, with or without a token in its body
attemptLtJwtSwitch_anyOk(answer) == answer.kind \in {"ok", "empty"}

\* attemptLtJwtSwitch: TRUE iff the token endpoint answered OK with a token
attemptLtJwtSwitch(answer) == answer.kind = "ok"

\* store after attemptLtJwtSwitch consumed the answer of the token endpoint
SwitchedState(ds, answer) ==
    IF attemptLtJwtSwitch(answer) THEN setLtAuthMode(ds, "jwt") ELSE ds

SwitchedToken(dt, answer) ==
    IF attemptLtJwtSwitch(answer) THEN setLtJwtToken(answer.token) ELSE dt

-----------------------------------------------------------------------------
(* Reactive state of useLtAuth() *)

authMode        == IF authState.kind = "record" THEN authState.authMode ELSE "cookie"
isJwtMode       == authMode = "jwt"
user            == IF authState.kind = "record" THEN authState.user ELSE NoUser
isAuthenticated == user # NoUser

\* What the useCookie refs hold when the composable is set up over a store:
\* an absent record reads as null, unparsable text stays the raw text
CookieRefState(ds) == ds
CookieRefToken(dt) == IF dt.kind \in {"json", "raw"} THEN dt.val ELSE NoToken

\* What a useCookie ref persists: an object as JSON, a string as it is,
\* null removes the record
CookieOfToken(t) == IF t = NoToken THEN TokAbsent ELSE TokRaw(t)

\* history: a write to the store that is not made by the ltAuthFetch call
Disturbed(a) == IF a.pc = "idle" THEN a ELSE [a EXCEPT !.quiet = FALSE]

\* a mode argument, or none
ModeArgs == Modes \cup {"undefined"}

\* mutant: an omitted mode leaves the session in the mode it is in
modeOrDefault_current(mode) == IF mode = "undefined" THEN authMode ELSE mode

\* mode: LtAuthMode = "cookie"
modeOrDefault(mode) == IF mode = "undefined" THEN "cookie" ELSE mode

\* setUser(userData, mode): replaces the ref and writes the record
setUser(userData, mode) ==
    /\ authState' = Record(userData, modeOrDefault(mode))
    /\ docState' = Record(userData, modeOrDefault(mode))
    /\ lastSetUser' = userData

\* mutant: the token is left in place
clearUser_tokenKept ==
    /\ authState' = Record(NoUser, "cookie")
    /\ docState' = Record(NoUser, "cookie")
    /\ lastSetUser' = NoUser
    /\ UNCHANGED <<jwtToken, docToken>>

\* clearUser(): default state, no token, in the refs and in the store
clearUser ==
    /\ authState' = Record(NoUser, "cookie")
    /\ jwtToken' = NoToken
    /\ docState' = Record(NoUser, "cookie")
    /\ docToken' = TokAbsent
    /\ lastSetUser' = NoUser

\* the application calls setUser (history: was is the mode a call without
\* a mode argument found the session in)
SetUser(userData, mode) ==
    /\ setUser(userData, mode)
    /\ ev' = IF mode = "undefined"
             THEN [op |-> "setUser", mode |-> mode, was |-> authMode]
             ELSE [op |-> "setUser", mode |-> mode]
    /\ af' = Disturbed(af)
    /\ UNCHANGED <<jwtToken, docToken, isLoading, ops, tokenReqs, fw>>
    /\ UNCHANGED <<clientVars, wire, sideVars>>

\* the application (or the 401 interceptor) calls clearUser
ClearUser ==
    /\ clearUser
    /\ ev' = [op |-> "clearUser", wasJwt |-> isJwtMode /\ jwtToken # NoToken]
    /\ af' = Disturbed(af)
    /\ UNCHANGED <<isLoading, ops, tokenReqs, fw>>
    /\ UNCHANGED <<clientVars, wire, sideVars>>

-----------------------------------------------------------------------------
(* Authenticated fetch protocol: createLtAuthFetch *)

NoAnswer == [kind |-> "none", token |-> NoToken]
NoResult == [req |-> 0, status |-> "none"]

AfIdle ==
    [pc |-> "idle", authMode |-> "cookie", jwtToken |-> NoToken, user0 |-> FALSE,
     bearer |-> NoToken, first |-> "none", authed |-> FALSE, answer |-> NoAnswer,
     result |-> NoResult, reqs |-> 0, tokenCalls |-> 0, quiet |-> TRUE,
     init |-> "undefined", creds |-> "none", url |-> <<>>]

\* mutant: the caller's init is spread over the setting
sentCredentials_callerFirst(init) ==
    IF init = "undefined" THEN "include" ELSE init

\* credentials of fetch(input, {...init, headers, credentials: "include"}),
\* init being the credentials member of the caller's init
sentCredentials(init) == "include"

\* the call record with the request it has just issued for a caller whose
\* init is a.init
afIssued(a, next) ==
    [next EXCEPT !.init = a.init,
                 !.creds = IF next.pc \in {"first", "retry"}
                           THEN sentCredentials(a.init) ELSE a.creds]

\* mutant: the fallback is also tried for an anonymous request
NeedsSwitch_anonymous(status, mode, authed) ==
    status = "401" /\ mode = "cookie"

\* the condition of the JWT fallback (response.status === 401 && authMode ===
\* "cookie" && isLtAuthenticated())
NeedsSwitch(status, mode, authed) ==
    status = "401" /\ mode = "cookie" /\ authed

\* mutant: a stored token is attached whatever the mode
afOnCall_tokenOnly(ds, dt) ==
    [AfIdle EXCEPT
        !.pc = "first",
        !.authMode = getLtAuthMode(ds),
        !.jwtToken = getLtJwtToken(dt),
        !.user0 = isLtAuthenticated(ds),
        !.bearer = getLtJwtToken(dt),
        !.reqs = 1]

\* ltAuthFetch(input, init) up to the first await: reads mode and token,
\* attaches the bearer header in jwt mode, issues the request
afOnCall(ds, dt) ==
    [AfIdle EXCEPT
        !.pc = "first",
        !.authMode = getLtAuthMode(ds),
        !.jwtToken = getLtJwtToken(dt),
        !.user0 = isLtAuthenticated(ds),
        !.bearer = IF getLtAuthMode(ds) = "jwt" /\ getLtJwtToken(dt) # NoToken
                   THEN getLtJwtToken(dt) ELSE NoToken,
        !.reqs = 1]

\* the first response arrived: start the switch or return the response
afOnFirst(a, status, authed) ==
    IF NeedsSwitch(status, a.authMode, authed)
    THEN [a EXCEPT !.pc = "token", !.first = status, !.authed = authed,
                   !.tokenCalls = @ + 1]
    ELSE [a EXCEPT !.pc = "done", !.first = status, !.authed = authed,
                   !.result = [req |-> 1, status |-> status]]

\* the token endpoint answered: retry with the new token, or return the 401
afOnToken(a, answer, newToken) ==
    IF attemptLtJwtSwitch(answer) /\ newToken # NoToken
    THEN [a EXCEPT !.pc = "retry", !.answer = answer, !.bearer = newToken,
                   !.reqs = @ + 1]
    ELSE [a EXCEPT !.pc = "done", !.answer = answer,
                   !.result = [req |-> 1, status |-> a.first]]

\* mutant: a 401 on the re-issued request starts another switch
afOnRetry_again(a, status) ==
    IF status = "401"
    THEN [a EXCEPT !.pc = "token", !.tokenCalls = @ + 1]
    ELSE [a EXCEPT !.pc = "done", !.result = [req |-> 2, status |-> status]]

\* the re-issued request was answered: that response is returned
afOnRetry(a, status) ==
    [a EXCEPT !.pc = "done", !.result = [req |-> 2, status |-> status]]

LtAuthFetchCall ==
    /\ af.pc \in {"idle", "done"}
    /\ af' = afIssued(af, afOnCall(docState, docToken))
    /\ UNCHANGED <<storeVars, authVars, clientVars, wire, sideVars>>

LtAuthFetchFirst(status) ==
    /\ af.pc = "first"
    /\ af' = afOnFirst(af, status, isLtAuthenticated(docState))
    /\ UNCHANGED <<storeVars, authVars, clientVars, wire, sideVars>>

LtAuthFetchToken(answer) ==
    /\ af.pc = "token"
    /\ docToken' = SwitchedToken(docToken, answer)
    /\ docState' = SwitchedState(docState, answer)
    /\ af' = afIssued(af, afOnToken(af, answer, getLtJwtToken(docToken')))
    /\ ev' = [op |-> "attemptLtJwtSwitch"]
    /\ UNCHANGED <<authState, jwtToken, isLoading, ops, tokenReqs, fw,
                   lastSetUser, clientVars, wire, sideVars>>

LtAuthFetchRetry(status) ==
    /\ af.pc = "retry"
    /\ af' = afOnRetry(af, status)
    /\ UNCHANGED <<storeVars, authVars, clientVars, wire, sideVars>>

\* the application calls the store readers directly, in the browser or
\* during server-side rendering
GetLtAuthMode ==
    /\ ev' = [op |-> "getLtAuthMode",
              ret |-> IF server THEN "cookie" ELSE getLtAuthMode(docState)]
    /\ UNCHANGED <<storeVars, af, isLoading, ops, tokenReqs, fw, lastSetUser,
                   clientVars, wire, sideVars>>

GetLtJwtToken ==
    /\ ev' = [op |-> "getLtJwtToken",
              ret |-> IF server THEN NoToken ELSE getLtJwtToken(docToken)]
    /\ UNCHANGED <<storeVars, af, isLoading, ops, tokenReqs, fw, lastSetUser,
                   clientVars, wire, sideVars>>

IsLtAuthenticated ==
    /\ ev' = [op |-> "isLtAuthenticated",
              ret |-> IF server THEN FALSE ELSE isLtAuthenticated(docState)]
    /\ UNCHANGED <<storeVars, af, isLoading, ops, tokenReqs, fw, lastSetUser,
                   clientVars, wire, sideVars>>

\* the application calls the store setters directly
SetLtAuthMode(mode) ==
    /\ docState' = setLtAuthMode(docState, mode)
    /\ af' = Disturbed(af)
    /\ ev' = [op |-> "setLtAuthMode", mode |-> mode, before |-> docState.kind]
    /\ UNCHANGED <<docToken, authState, jwtToken, isLoading, ops, tokenReqs,
                   fw, lastSetUser, clientVars, wire, sideVars>>

SetLtJwtToken(token) ==
    /\ docToken' = setLtJwtToken(token)
    /\ af' = Disturbed(af)
    /\ ev' = [op |-> "setLtJwtToken"]
    /\ UNCHANGED <<docState, authState, jwtToken, isLoading, ops, tokenReqs,
                   fw, lastSetUser, clientVars, wire, sideVars>>

-----------------------------------------------------------------------------
(* Feature map of useLtAuth(): useState "lt-auth-features" *)

\* bound: requests to {apiBase}/features issued in one session
MaxFeatureReqs == 3

\* {} and the maps the backend may answer with
NoFeatures == "{}"
FeatureMaps == {"f1", "f2"}

\* What $fetch(`${apiBase}/features`) settles with: a map, a falsy body, or
\* it rejects
FeatureResults ==
    {[kind |-> "ok", map |-> m] : m \in FeatureMaps}
        \cup {[kind |-> k, map |-> NoFeatures] : k \in {"falsy", "throws"}}

\* the useState refs before the first useLtAuth(); pending counts the
\* requests in flight, the other fields are history
FtFresh ==
    [features |-> NoFeatures, featuresFetched |-> FALSE, pending |-> 0,
     requests |-> 0, succeeded |-> FALSE, late |-> 0,
     last |-> [op |-> "none", ret |-> NoFeatures]]

\* fetchFeatures() up to its await: one request is issued
featuresRequested(f) ==
    [f EXCEPT !.pending = @ + 1, !.requests = @ + 1,
              !.late = IF f.succeeded THEN @ + 1 ELSE @]

\* the end of useLtAuth(): the first instance on the client sets the flag
\* and calls fetchFeatures()
setupFeatures(f) ==
    IF ~f.featuresFetched
    THEN [featuresRequested(f) EXCEPT !.featuresFetched = TRUE]
    ELSE f

\* the application calls fetchFeatures()
FetchFeaturesCall ==
    /\ ft.requests < MaxFeatureReqs
    /\ ft' = [featuresRequested(ft) EXCEPT !.last = [op |-> "call", ret |-> NoFeatures]]
    /\ UNCHANGED <<storeVars, authVars, af, clientVars, wire, extraVars, ic, pk>>

\* the features endpoint answered a fetchFeatures() call, which resolves
\* with features.value
FetchFeaturesSettled(result) ==
    /\ ft.pending > 0
    /\ LET map == IF result.kind = "ok" THEN result.map ELSE ft.features
       IN  ft' = [ft EXCEPT
                     !.pending = @ - 1,
                     !.features = map,
                     !.featuresFetched = IF result.kind = "ok" THEN TRUE ELSE @,
                     !.succeeded = IF result.kind = "ok" THEN TRUE ELSE @,
                     !.last = [op |-> result.kind, ret |-> map]]
    /\ UNCHANGED <<storeVars, authVars, af, clientVars, wire, extraVars, ic, pk>>

-----------------------------------------------------------------------------
(* Session orchestrator: useLtAuth() *)

\* bounds: standalone switchToJwtMode() calls that may be in flight at once
MaxPrefetch == 1
MaxExplicit == 1

NoTokenReqs == [prefetch |-> 0, explicit |-> 0]

\* URLs as path segments
Urls ==
    {<<"api", "iam", "passkey", "generate-register-options">>,
     <<"api", "iam", "two-factor", "enable">>,
     <<"api", "data">>}

PATHS_REQUIRING_COOKIES == {"passkey", "two-factor", "2fa"}

\* mutant: only the passkey paths are listed
urlRequiresCookies_passkeyOnly(url) ==
    \E i \in 1..(Len(url) - 1) : url[i] = "passkey"

\* url.includes("/passkey/") etc.: the segment is followed by another one
urlRequiresCookies(url) ==
    \E i \in 1..(Len(url) - 1) : url[i] \in PATHS_REQUIRING_COOKIES

\* mutant: the token of the answer is not stored
switchedJwtToken_kept(t, answer) == t

\* switchToJwtMode() after the token endpoint answered: the token ref
switchedJwtToken(t, answer) ==
    IF answer.kind = "ok" THEN answer.token ELSE t

\* mutant: the new state is built without the old one
switchedAuthState_fresh(as, answer) ==
    IF answer.kind = "ok" /\ as.kind # "absent"
    THEN Record(NoUser, "jwt")
    ELSE as

\* switchToJwtMode() after the token endpoint answered: the state ref
\* ({...authState.value, authMode: "jwt"} when authState.value is set)
switchedAuthState(as, answer) ==
    IF answer.kind = "ok" /\ as.kind # "absent"
    THEN Record(IF as.kind = "record" THEN as.user ELSE NoUser, "jwt")
    ELSE as

\* a useCookie ref that was assigned a new value writes it to the store
Persist ==
    /\ docState' = IF authState' # authState THEN authState' ELSE docState
    /\ docToken' = IF jwtToken' # jwtToken THEN CookieOfToken(jwtToken')
                   ELSE docToken

\* switchToJwtMode() from the answer of the token endpoint on
switchToJwtMode(answer) ==
    /\ jwtToken' = switchedJwtToken(jwtToken, answer)
    /\ authState' = switchedAuthState(authState, answer)
    /\ Persist
    /\ UNCHANGED lastSetUser

\* switchToJwtMode().catch(() => {}): fire and forget
CanPrefetch == tokenReqs.prefetch < MaxPrefetch
Prefetch    == tokenReqs' = [tokenReqs EXCEPT !.prefetch = @ + 1]

\* the application calls switchToJwtMode()
SwitchToJwtModeCall ==
    /\ tokenReqs.explicit < MaxExplicit
    /\ tokenReqs' = [tokenReqs EXCEPT !.explicit = @ + 1]
    /\ ev' = [op |-> "call"]
    /\ UNCHANGED <<storeVars, af, isLoading, ops, fw, lastSetUser, clientVars, wire, sideVars>>

\* mutant: the mode is not looked at
refreshAllowed_tokenOnly == jwtToken # NoToken

\* refreshJwtToken(): if (!isJwtMode.value || !jwtToken.value) return false
refreshAllowed == isJwtMode /\ jwtToken # NoToken

\* the application calls refreshJwtToken()
RefreshJwtTokenCall ==
    /\ IF ~refreshAllowed
       THEN /\ ev' = [op |-> "refreshJwtToken", ret |-> FALSE]
            /\ UNCHANGED tokenReqs
       ELSE /\ tokenReqs.explicit < MaxExplicit
            /\ tokenReqs' = [tokenReqs EXCEPT !.explicit = @ + 1]
            /\ ev' = [op |-> "call"]
    /\ UNCHANGED <<storeVars, af, isLoading, ops, fw, lastSetUser, clientVars, wire, sideVars>>

\* the token endpoint answers a standalone switchToJwtMode() call
TokenAnswer(kind, answer) ==
    /\ tokenReqs[kind] > 0
    /\ tokenReqs' = [tokenReqs EXCEPT ![kind] = @ - 1]
    /\ switchToJwtMode(answer)
    /\ ev' = [op |-> kind, ok |-> answer.kind = "ok", token |-> answer.token,
              modeBefore |-> authMode]
    /\ af' = Disturbed(af)
    /\ UNCHANGED <<isLoading, ops, fw, clientVars, wire, sideVars>>

\* What a passkey ceremony may catch: an Error (DOMException included) with
\* a name and a message, or a value that is no Error. Messages are word lists.
ErrorNames == {"NotAllowedError", "InvalidStateError", "Error"}
ErrorMessages ==
    {<<"timed", "out">>, <<"already", "registered">>,
     <<"credentials", "already", "registered", "here">>}
Errors ==
    {[isError |-> TRUE, name |-> n, message |-> m] :
        n \in ErrorNames, m \in ErrorMessages}
        \cup {[isError |-> FALSE, name |-> "none", message |-> <<"value">>]}
NoErr == [isError |-> FALSE, name |-> "none", message |-> <<>>]
\* what fetch rejects with, and what response.json() rejects with
FetchError ==
    [isError |-> TRUE, name |-> "TypeError", message |-> <<"Failed", "to", "fetch">>]
JsonError ==
    [isError |-> TRUE, name |-> "SyntaxError", message |-> <<"Unexpected", "token">>]

\* String.prototype.includes on word lists
includes(text, part) ==
    \E i \in 1..(Len(text) - Len(part) + 1) :
        SubSeq(text, i, i + Len(part) - 1) = part

\* the t(key, germanFallback) that useTranslation() returns
useTranslation(i18n, key, germanFallback) ==
    IF i18n THEN <<key>> ELSE germanFallback

\* the result of a ceremony, and the ceremony that is not running
\* (a message is a word list, the empty one standing for no message;
\* cause, err and server record how the ceremony ended)
NoMessage == <<>>
NoPkResult == [success |-> FALSE, error |-> NoMessage, user |-> NoUser]
PkIdle(i18n) ==
    [pc |-> "idle", op |-> "none", i18n |-> i18n, status |-> "none",
     cause |-> "none", err |-> NoErr, server |-> NoMessage,
     result |-> NoPkResult]

\* the stage a ceremony resumes in when its fetchWithAuth call returns
pkAfterFetch(pc) ==
    CASE pc = "options"    -> "optionsResponse"
      [] pc = "verify"     -> "verifyResponse"
      [] pc = "getSession" -> "sessionResponse"
      [] OTHER             -> pc

\* fetchWithAuth returned (or threw) to the ceremony that awaits it
fwReturned(p, status) ==
    IF p.pc \in {"options", "verify", "getSession"}
    THEN [p EXCEPT !.pc = pkAfterFetch(p.pc), !.status = status]
    ELSE p

\* fetchWithAuth(url, options)
FwIdle == [pc |-> "idle", url |-> <<>>, bearer |-> NoToken, creds |-> "none",
           first |-> "none"]

fwNeedsSwitch(status) ==
    status = "401" /\ ~isJwtMode /\ isAuthenticated

\* fetchWithAuth up to its first await: the request that is issued
fwOnCall(url) ==
    [pc |-> "first", url |-> url,
     bearer |-> IF isJwtMode /\ jwtToken # NoToken THEN jwtToken ELSE NoToken,
     creds |-> IF ~isJwtMode \/ urlRequiresCookies(url)
               THEN "include" ELSE "omit",
     first |-> "none"]

FetchWithAuthCall(url) ==
    /\ fw.pc = "idle"
    /\ fw' = fwOnCall(url)
    /\ ev' = [op |-> "call"]
    /\ UNCHANGED <<storeVars, af, isLoading, ops, tokenReqs, lastSetUser, clientVars, wire, sideVars>>

FetchWithAuthFirst(status) ==
    /\ fw.pc = "first"
    /\ IF fwNeedsSwitch(status)
       THEN /\ fw' = [fw EXCEPT !.pc = "token", !.first = status]
            /\ ev' = [op |-> "call"]
            /\ pk' = pk
       ELSE /\ fw' = FwIdle
            /\ ev' = [op |-> "fetchWithAuth", req |-> 1, status |-> status]
            /\ pk' = fwReturned(pk, status)
    /\ UNCHANGED <<storeVars, af, isLoading, ops, tokenReqs, lastSetUser, clientVars, wire, extraVars, ic, ft>>

FetchWithAuthToken(answer) ==
    /\ fw.pc = "token"
    /\ switchToJwtMode(answer)
    /\ IF answer.kind = "ok"
       THEN /\ fw' = [fw EXCEPT !.pc = "retry", !.bearer = jwtToken',
                         !.creds = IF urlRequiresCookies(fw.url)
                                   THEN "include" ELSE "omit"]
            /\ ev' = [op |-> "fetchWithAuthSwitch"]
            /\ pk' = pk
       ELSE /\ fw' = FwIdle
            /\ ev' = [op |-> "fetchWithAuth", req |-> 1, status |-> fw.first]
            /\ pk' = fwReturned(pk, fw.first)
    /\ af' = Disturbed(af)
    /\ UNCHANGED <<isLoading, ops, tokenReqs, clientVars, wire, extraVars, ic, ft>>

FetchWithAuthRetry(status) ==
    /\ fw.pc = "retry"
    /\ fw' = FwIdle
    /\ ev' = [op |-> "fetchWithAuth", req |-> 2, status |-> status]
    /\ pk' = fwReturned(pk, status)
    /\ UNCHANGED <<storeVars, af, isLoading, ops, tokenReqs, lastSetUser, clientVars, wire, extraVars, ic, ft>>

\* What authClient.useSession() reports once it is no longer pending
Sessions ==
    {[kind |-> "user", user |-> u] : u \in Users}
        \cup {[kind |-> k, user |-> NoUser] : k \in {"none", "throws"}}

\* mutant: only the provider's answer counts
validateSessionReturn_providerOnly(session, u) ==
    session.kind = "user"

\* what validateSession() returns: the provider reports a user, or the stored
\* state has one (also in the catch branch)
validateSessionReturn(session, u) ==
    CASE session.kind = "user"   -> TRUE
      [] session.kind = "none"   -> u # NoUser
      [] session.kind = "throws" -> u # NoUser

\* validateSession(), from the moment the session query has settled
ValidateSession(session) ==
    /\ CanPrefetch
    /\ ev' = [op |-> "validateSession", session |-> session.kind,
              ret |-> validateSessionReturn(session, user), userBefore |-> user]
    /\ CASE session.kind = "user" ->
              /\ setUser(session.user, "cookie")
              /\ Prefetch
              /\ UNCHANGED <<jwtToken, docToken>>
         [] session.kind = "none" /\ validateSessionReturn(session, user) ->
              /\ Prefetch
              /\ UNCHANGED <<storeVars, lastSetUser>>
         [] OTHER ->
              UNCHANGED <<storeVars, lastSetUser, tokenReqs>>
    /\ af' = Disturbed(af)
    /\ UNCHANGED <<isLoading, ops, fw, clientVars, wire, sideVars>>

\* useLtAuth() is set up (a component, the interceptor): a user found in
\* document.cookie is adopted when the ref has none; the first instance
\* fetches the feature map
UseLtAuth ==
    /\ IF docState.kind = "record" /\ docState.user # NoUser /\ user = NoUser
       THEN authState' = docState
       ELSE UNCHANGED authState
    /\ ft' = setupFeatures(ft)
    /\ ev' = [op |-> "useLtAuth"]
    /\ UNCHANGED <<docState, docToken, jwtToken, af, isLoading, ops, tokenReqs,
                   fw, lastSetUser, clientVars, wire, extraVars, ic, pk>>

\* What authClient.signIn.email / signUp.email settles with: a result with a
\* token and a user, a token only, a user only, neither, or it throws
LoginResults ==
    {[kind |-> "tokenUser", token |-> t, user |-> u] : t \in Tokens, u \in Users}
        \cup {[kind |-> "token", token |-> t, user |-> NoUser] : t \in Tokens}
        \cup {[kind |-> "user", token |-> NoToken, user |-> u] : u \in Users}
        \cup {[kind |-> k, token |-> NoToken, user |-> NoUser] : k \in {"none", "throws"}}

\* an operation that sets isLoading starts
LoadingCall(op) ==
    /\ op \notin ops
    /\ isLoading' = TRUE
    /\ ops' = ops \cup {op}
    /\ ev' = [op |-> "call"]
    /\ UNCHANGED <<storeVars, af, tokenReqs, fw, lastSetUser, clientVars, wire, sideVars>>

\* signIn.email / signUp.email after the provider call settled
LoginSettled(op, result) ==
    /\ op \in ops
    /\ result.kind = "user" => CanPrefetch
    /\ CASE result.kind = "tokenUser" ->
              /\ jwtToken' = result.token
              /\ authState' = Record(result.user, "jwt")
              /\ docState' = Record(result.user, "jwt")
              /\ docToken' = IF jwtToken' # jwtToken THEN CookieOfToken(jwtToken')
                             ELSE docToken
              /\ lastSetUser' = result.user
              /\ UNCHANGED tokenReqs
         [] result.kind = "token" ->
              /\ jwtToken' = result.token
              /\ UNCHANGED authState
              /\ Persist
              /\ UNCHANGED <<lastSetUser, tokenReqs>>
         [] result.kind = "user" ->
              /\ setUser(result.user, "cookie")
              /\ Prefetch
              /\ UNCHANGED <<jwtToken, docToken>>
         [] result.kind \in {"none", "throws"} ->
              UNCHANGED <<storeVars, lastSetUser, tokenReqs>>
    /\ isLoading' = FALSE
    /\ ops' = ops \ {op}
    /\ ev' = [op |-> op, result |-> result.kind]
    /\ af' = Disturbed(af)
    /\ UNCHANGED <<fw, clientVars, wire, sideVars>>

SignInEmailCall == LoadingCall("signIn")
SignInEmailSettled(result) == LoginSettled("signIn", result)
SignUpEmailCall == LoadingCall("signUp")
SignUpEmailSettled(result) == LoginSettled("signUp", result)

\* signOut(): clearUser() runs only after authClient.signOut() resolved
SignOutCall == LoadingCall("signOut")

SignOutSettled(outcome) ==
    /\ "signOut" \in ops
    /\ IF outcome = "resolved"
       THEN clearUser
       ELSE UNCHANGED <<storeVars, lastSetUser>>
    /\ isLoading' = FALSE
    /\ ops' = ops \ {"signOut"}
    /\ ev' = [op |-> "signOut", outcome |-> outcome]
    /\ af' = Disturbed(af)
    /\ UNCHANGED <<tokenReqs, fw, clientVars, wire, sideVars>>

\* registerPasskey(name) ----------------------------------------------------

RegisterOptionsUrl == <<"api", "iam", "passkey", "generate-register-options">>
RegisterVerifyUrl  == <<"api", "iam", "passkey", "verify-registration">>

\* what response.json() yields: a body with or without a message, or a throw
ServerMessages == {<<"Challenge", "expired">>}
Bodies ==
    {[kind |-> "json", message |-> m] : m \in ServerMessages \cup {NoMessage}}
        \cup {[kind |-> "throws", message |-> NoMessage]}

\* what the options response can hold besides: options without a challenge
\* (ltBase64UrlToUint8Array(undefined) throws)
OptionsBodies == Bodies \cup {[kind |-> "malformed", message |-> NoMessage]}
ConversionError ==
    [isError |-> TRUE, name |-> "TypeError",
     message |-> <<"Cannot", "read", "properties", "of", "undefined">>]

passkeyCreationAborted(i18n) ==
    useTranslation(i18n, "lt.auth.passkeyCreationAborted",
                   <<"Passkey-Erstellung", "wurde", "abgebrochen">>)
passkeyCreationNull(i18n) ==
    useTranslation(i18n, "lt.auth.passkeyCreationAborted",
                   <<"Passkey-Erstellung", "abgebrochen">>)
passkeyAlreadyRegistered(i18n) ==
    useTranslation(i18n, "lt.auth.passkeyAlreadyRegistered",
                   <<"Du", "hast", "bereits", "einen", "Passkey">>)
passkeyRegisterFailed(i18n) ==
    useTranslation(i18n, "lt.auth.passkeyRegisterFailed",
                   <<"Passkey-Registrierung", "fehlgeschlagen">>)
registerOptionsError(i18n) ==
    useTranslation(i18n, "lt.auth.registerOptionsError",
                   <<"Konnte", "Registrierungsoptionen", "nicht", "laden">>)

\* mutant: the server's message is reported as it is
orFallback_none(message, fallback) == message

\* error.message || fallback
orFallback(message, fallback) ==
    IF message # NoMessage THEN message ELSE fallback

alreadyRegistered(err) ==
    \/ err.name = "InvalidStateError"
    \/ includes(err.message, <<"already", "registered">>)
    \/ includes(err.message, <<"credentials", "already", "registered">>)

\* mutant: the duplicate test comes before the cancellation test
registerPasskeyCatch_duplicateFirst(i18n, err) ==
    IF err.isError
    THEN IF alreadyRegistered(err) THEN passkeyAlreadyRegistered(i18n)
         ELSE IF err.name = "NotAllowedError" THEN passkeyCreationAborted(i18n)
         ELSE err.message
    ELSE passkeyRegisterFailed(i18n)

\* the catch block of registerPasskey: the error message it returns
registerPasskeyCatch(i18n, err) ==
    IF err.isError
    THEN IF err.name = "NotAllowedError" THEN passkeyCreationAborted(i18n)
         ELSE IF alreadyRegistered(err) THEN passkeyAlreadyRegistered(i18n)
         ELSE err.message
    ELSE passkeyRegisterFailed(i18n)

\* a ceremony returns: the finally block has run
pkSettled(p, cause, err, message, result) ==
    [p EXCEPT !.pc = "done", !.cause = cause, !.err = err,
              !.server = message, !.result = result]

\* mutant: the flag is reset on the success path only
pkLoadingAfter_successOnly(p, loading) ==
    IF p.pc = "done" /\ p.result.success THEN FALSE ELSE loading

\* isLoading after a step of a ceremony: reset by the finally block when
\* the ceremony returned, left as it is while the ceremony awaits
pkLoadingAfter(p, loading) == IF p.pc = "done" THEN FALSE ELSE loading

pkFailure(message) == [success |-> FALSE, error |-> message, user |-> NoUser]
pkSuccess(u) == [success |-> TRUE, error |-> NoMessage, user |-> u]

\* registerPasskey up to the request for the registration options
RegisterPasskeyCall ==
    /\ pk.pc \in {"idle", "done"}
    /\ fw.pc = "idle"
    /\ isLoading' = TRUE
    /\ ops' = ops \cup {"registerPasskey"}
    /\ fw' = fwOnCall(RegisterOptionsUrl)
    /\ pk' = [PkIdle(pk.i18n) EXCEPT !.pc = "options", !.op = "registerPasskey"]
    /\ ev' = [op |-> "call"]
    /\ UNCHANGED <<storeVars, af, tokenReqs, lastSetUser, clientVars, wire, extraVars, ic, ft>>

\* the options response arrived: a rejection or a throw ends the ceremony,
\* the options lead to navigator.credentials.create
RegisterPasskeyOptions(body) ==
    /\ pk.op = "registerPasskey" /\ pk.pc = "optionsResponse"
    /\ CASE pk.status = Threw ->
              pk' = pkSettled(pk, "caught", FetchError, NoMessage,
                        pkFailure(registerPasskeyCatch(pk.i18n, FetchError)))
         [] pk.status \notin {Threw, "200"} ->
              pk' = pkSettled(pk, "optionsRejected", NoErr, body.message,
                        pkFailure(orFallback(body.message,
                                             registerOptionsError(pk.i18n))))
         [] pk.status = "200" /\ body.kind = "throws" ->
              pk' = pkSettled(pk, "caught", JsonError, NoMessage,
                        pkFailure(registerPasskeyCatch(pk.i18n, JsonError)))
         [] pk.status = "200" /\ body.kind = "malformed" ->
              pk' = pkSettled(pk, "caught", ConversionError, NoMessage,
                        pkFailure(registerPasskeyCatch(pk.i18n, ConversionError)))
         [] OTHER -> pk' = [pk EXCEPT !.pc = "create"]
    /\ isLoading' = pkLoadingAfter(pk', isLoading)
    /\ ops' = IF pk'.pc = "done" THEN ops \ {"registerPasskey"} ELSE ops
    /\ ev' = [op |-> "registerPasskey"]
    /\ UNCHANGED <<storeVars, af, tokenReqs, fw, lastSetUser, clientVars, wire, extraVars, ic, ft>>

\* navigator.credentials.create settled: a credential is sent for
\* verification, null or a throw ends the ceremony
CeremonyOutcomes ==
    {[kind |-> k, err |-> NoErr] : k \in {"credential", "null"}}
        \cup {[kind |-> "throws", err |-> e] : e \in Errors}

RegisterPasskeyCreate(outcome) ==
    /\ pk.op = "registerPasskey" /\ pk.pc = "create"
    /\ CASE outcome.kind = "credential" ->
              /\ fw.pc = "idle"
              /\ fw' = fwOnCall(RegisterVerifyUrl)
              /\ pk' = [pk EXCEPT !.pc = "verify"]
         [] outcome.kind = "null" ->
              /\ pk' = pkSettled(pk, "null", NoErr, NoMessage,
                         pkFailure(passkeyCreationNull(pk.i18n)))
              /\ fw' = fw
         [] OTHER ->
              /\ pk' = pkSettled(pk, "caught", outcome.err, NoMessage,
                         pkFailure(registerPasskeyCatch(pk.i18n, outcome.err)))
              /\ fw' = fw
    /\ isLoading' = pkLoadingAfter(pk', isLoading)
    /\ ops' = IF pk'.pc = "done" THEN ops \ {"registerPasskey"} ELSE ops
    /\ ev' = [op |-> "registerPasskey"]
    /\ UNCHANGED <<storeVars, af, tokenReqs, lastSetUser, clientVars, wire, extraVars, ic, ft>>

\* the verification response arrived and its body was read
RegisterPasskeyVerify(body) ==
    /\ pk.op = "registerPasskey" /\ pk.pc = "verifyResponse"
    /\ CASE pk.status = Threw ->
              pk' = pkSettled(pk, "caught", FetchError, NoMessage,
                        pkFailure(registerPasskeyCatch(pk.i18n, FetchError)))
         [] pk.status # Threw /\ body.kind = "throws" ->
              pk' = pkSettled(pk, "caught", JsonError, NoMessage,
                        pkFailure(registerPasskeyCatch(pk.i18n, JsonError)))
         [] pk.status \notin {Threw, "200"} /\ body.kind = "json" ->
              pk' = pkSettled(pk, "verifyRejected", NoErr, body.message,
                        pkFailure(orFallback(body.message,
                                             passkeyRegisterFailed(pk.i18n))))
         [] OTHER -> pk' = pkSettled(pk, "success", NoErr, NoMessage,
                                     pkSuccess(NoUser))
    /\ isLoading' = pkLoadingAfter(pk', isLoading)
    /\ ops' = ops \ {"registerPasskey"}
    /\ ev' = [op |-> "registerPasskey"]
    /\ UNCHANGED <<storeVars, af, tokenReqs, fw, lastSetUser, clientVars, wire, extraVars, ic, ft>>

\* authenticateWithPasskey() ------------------------------------------------

AuthOptionsUrl == <<"api", "iam", "passkey", "generate-authenticate-options">>
AuthVerifyUrl  == <<"api", "iam", "passkey", "verify-authentication">>
GetSessionUrl  == <<"api", "iam", "get-session">>

\* what the body of the verification (and of get-session) can hold: a user,
\* a session token, a message, none of them, or reading it throws
AuthBodies ==
    {[kind |-> "user", user |-> u, token |-> NoToken, message |-> NoMessage] :
        u \in Users}
      \cup {[kind |-> "session", user |-> NoUser, token |-> tok,
             message |-> NoMessage] : tok \in Tokens}
      \cup {[kind |-> "json", user |-> NoUser, token |-> NoToken, message |-> m] :
             m \in ServerMessages \cup {NoMessage}}
      \cup {[kind |-> "throws", user |-> NoUser, token |-> NoToken,
             message |-> NoMessage]}

passkeyError(i18n) ==
    useTranslation(i18n, "lt.auth.passkeyError",
                   <<"Konnte", "Passkey-Optionen", "nicht", "laden">>)
noPasskeySelected(i18n) ==
    useTranslation(i18n, "lt.auth.noPasskeySelected",
                   <<"Kein", "Passkey", "ausgewaehlt">>)
passkeyFailed(i18n) ==
    useTranslation(i18n, "lt.auth.passkeyFailed",
                   <<"Passkey-Anmeldung", "fehlgeschlagen">>)
passkeyAborted(i18n) ==
    useTranslation(i18n, "lt.auth.passkeyAborted",
                   <<"Passkey-Authentifizierung", "wurde", "abgebrochen">>)

\* the catch block of authenticateWithPasskey: the error message it returns
authenticateWithPasskeyCatch(i18n, err) ==
    IF err.isError /\ err.name = "NotAllowedError" THEN passkeyAborted(i18n)
    ELSE IF err.isError THEN err.message
    ELSE passkeyFailed(i18n)

\* authenticateWithPasskey up to the request for the options
AuthenticateWithPasskeyCall ==
    /\ pk.pc \in {"idle", "done"}
    /\ fw.pc = "idle"
    /\ isLoading' = TRUE
    /\ ops' = ops \cup {"authenticateWithPasskey"}
    /\ fw' = fwOnCall(AuthOptionsUrl)
    /\ pk' = [PkIdle(pk.i18n) EXCEPT !.pc = "options",
                                     !.op = "authenticateWithPasskey"]
    /\ ev' = [op |-> "call"]
    /\ UNCHANGED <<storeVars, af, tokenReqs, lastSetUser, clientVars, wire, extraVars, ic, ft>>

\* the options response arrived
AuthenticateWithPasskeyOptions(body) ==
    /\ pk.op = "authenticateWithPasskey" /\ pk.pc = "optionsResponse"
    /\ CASE pk.status = Threw ->
              pk' = pkSettled(pk, "caught", FetchError, NoMessage,
                      pkFailure(authenticateWithPasskeyCatch(pk.i18n, FetchError)))
         [] pk.status \notin {Threw, "200"} ->
              pk' = pkSettled(pk, "optionsRejected", NoErr, NoMessage,
                      pkFailure(passkeyError(pk.i18n)))
         [] pk.status = "200" /\ body.kind = "throws" ->
              pk' = pkSettled(pk, "caught", JsonError, NoMessage,
                      pkFailure(authenticateWithPasskeyCatch(pk.i18n, JsonError)))
         [] pk.status = "200" /\ body.kind = "malformed" ->
              pk' = pkSettled(pk, "caught", ConversionError, NoMessage,
                      pkFailure(authenticateWithPasskeyCatch(pk.i18n, ConversionError)))
         [] OTHER -> pk' = [pk EXCEPT !.pc = "get"]
    /\ isLoading' = pkLoadingAfter(pk', isLoading)
    /\ ops' = IF pk'.pc = "done" THEN ops \ {"authenticateWithPasskey"} ELSE ops
    /\ ev' = [op |-> "authenticateWithPasskey"]
    /\ UNCHANGED <<storeVars, af, tokenReqs, fw, lastSetUser, clientVars, wire, extraVars, ic, ft>>

\* navigator.credentials.get settled
AuthenticateWithPasskeyGet(outcome) ==
    /\ pk.op = "authenticateWithPasskey" /\ pk.pc = "get"
    /\ CASE outcome.kind = "credential" ->
              /\ fw.pc = "idle"
              /\ fw' = fwOnCall(AuthVerifyUrl)
              /\ pk' = [pk EXCEPT !.pc = "verify"]
         [] outcome.kind = "null" ->
              /\ pk' = pkSettled(pk, "null", NoErr, NoMessage,
                         pkFailure(noPasskeySelected(pk.i18n)))
              /\ fw' = fw
         [] OTHER ->
              /\ pk' = pkSettled(pk, "caught", outcome.err, NoMessage,
                         pkFailure(authenticateWithPasskeyCatch(pk.i18n, outcome.err)))
              /\ fw' = fw
    /\ isLoading' = pkLoadingAfter(pk', isLoading)
    /\ ops' = IF pk'.pc = "done" THEN ops \ {"authenticateWithPasskey"} ELSE ops
    /\ ev' = [op |-> "authenticateWithPasskey"]
    /\ UNCHANGED <<storeVars, af, tokenReqs, lastSetUser, clientVars, wire, extraVars, ic, ft>>

\* the verification response arrived and its body was read: a user is
\* adopted in cookie mode, a session token is stored and the session is
\* asked for the user
AuthenticateWithPasskeyVerify(body) ==
    /\ pk.op = "authenticateWithPasskey" /\ pk.pc = "verifyResponse"
    /\ CASE pk.status = Threw ->
              /\ pk' = pkSettled(pk, "caught", FetchError, NoMessage,
                         pkFailure(authenticateWithPasskeyCatch(pk.i18n, FetchError)))
              /\ UNCHANGED <<storeVars, lastSetUser, tokenReqs, fw>>
         [] pk.status # Threw /\ body.kind = "throws" ->
              /\ pk' = pkSettled(pk, "caught", JsonError, NoMessage,
                         pkFailure(authenticateWithPasskeyCatch(pk.i18n, JsonError)))
              /\ UNCHANGED <<storeVars, lastSetUser, tokenReqs, fw>>
         [] pk.status \notin {Threw, "200"} /\ body.kind # "throws" ->
              /\ pk' = pkSettled(pk, "verifyRejected", NoErr, body.message,
                         pkFailure(orFallback(body.message, passkeyFailed(pk.i18n))))
              /\ UNCHANGED <<storeVars, lastSetUser, tokenReqs, fw>>
         [] pk.status = "200" /\ body.kind = "user" ->
              /\ CanPrefetch
              /\ setUser(body.user, "cookie")
              /\ Prefetch
              /\ pk' = pkSettled(pk, "success", NoErr, NoMessage, pkSuccess(body.user))
              /\ UNCHANGED <<jwtToken, docToken, fw>>
         [] pk.status = "200" /\ body.kind = "session" ->
              /\ switchToJwtMode([kind |-> "ok", token |-> body.token])
              /\ fw' = fwOnCall(GetSessionUrl)'
              /\ pk' = [pk EXCEPT !.pc = "getSession"]
              /\ UNCHANGED tokenReqs
         [] OTHER ->
              /\ pk' = pkSettled(pk, "success", NoErr, NoMessage, pkSuccess(NoUser))
              /\ UNCHANGED <<storeVars, lastSetUser, tokenReqs, fw>>
    /\ isLoading' = pkLoadingAfter(pk', isLoading)
    /\ ops' = IF pk'.pc = "done" THEN ops \ {"authenticateWithPasskey"} ELSE ops
    /\ ev' = [op |-> "authenticateWithPasskey"]
    /\ af' = Disturbed(af)
    /\ UNCHANGED <<clientVars, wire, extraVars, ic, ft>>

\* the get-session response arrived: its user is adopted, anything else
\* (a throw included) is ignored, and the ceremony returns success
AuthenticateWithPasskeySession(body) ==
    /\ pk.op = "authenticateWithPasskey" /\ pk.pc = "sessionResponse"
    /\ IF pk.status = "200" /\ body.kind = "user"
       THEN /\ CanPrefetch
            /\ setUser(body.user, "cookie")
            /\ Prefetch
            /\ pk' = pkSettled(pk, "success", NoErr, NoMessage, pkSuccess(body.user))
            /\ UNCHANGED <<jwtToken, docToken>>
       ELSE /\ pk' = pkSettled(pk, "success", NoErr, NoMessage, pkSuccess(NoUser))
            /\ UNCHANGED <<storeVars, lastSetUser, tokenReqs>>
    /\ isLoading' = pkLoadingAfter(pk', isLoading)
    /\ ops' = ops \ {"authenticateWithPasskey"}
    /\ ev' = [op |-> "authenticateWithPasskey"]
    /\ af' = Disturbed(af)
    /\ UNCHANGED <<fw, clientVars, wire, extraVars, ic, ft>>

------------------------------------------------------------------------------
(* base64url codec of the WebAuthn payloads (utils/crypto.ts) *)

\* bound: length of the byte sequences handed to the codec
MaxBytes == 4

\* the byte values tried: 0x00, 0x01, 'H', 0xFB (encodes to '+'), 0xFF ('/')
ByteValues == {0, 1, 72, 251, 255}

RECURSIVE ByteSeqs(_)
ByteSeqs(n) ==
    IF n = 0 THEN {<<>>}
    ELSE ByteSeqs(n - 1)
             \cup {Append(b, x) : b \in {q \in ByteSeqs(n - 1) : Len(q) = n - 1},
                                  x \in ByteValues}

\* the base64 alphabet of btoa / atob
Base64Alphabet ==
    <<"A", "B", "C", "D", "E", "F", "G", "H", "I", "J", "K", "L", "M",
      "N", "O", "P", "Q", "R", "S", "T", "U", "V", "W", "X", "Y", "Z",
      "a", "b", "c", "d", "e", "f", "g", "h", "i", "j", "k", "l", "m",
      "n", "o", "p", "q", "r", "s", "t", "u", "v", "w", "x", "y", "z",
      "0", "1", "2", "3", "4", "5", "6", "7", "8", "9", "+", "/">>

Sextet(n) == Base64Alphabet[n + 1]
SextetOf(c) == (CHOOSE i \in 1..64 : Base64Alphabet[i] = c) - 1
IsBase64Char(c) == \E i \in 1..64 : Base64Alphabet[i] = c

\* btoa(binary): three bytes give four characters, a rest of one or two
\* bytes is padded with '='
RECURSIVE btoa(_)
btoa(bytes) ==
    CASE Len(bytes) = 0 -> <<>>
      [] Len(bytes) = 1 ->
           LET n == bytes[1] * 65536
           IN  <<Sextet(n \div 262144), Sextet((n \div 4096) % 64), "=", "=">>
      [] Len(bytes) = 2 ->
           LET n == bytes[1] * 65536 + bytes[2] * 256
           IN  <<Sextet(n \div 262144), Sextet((n \div 4096) % 64),
                 Sextet((n \div 64) % 64), "=">>
      [] OTHER ->
           LET n == bytes[1] * 65536 + bytes[2] * 256 + bytes[3]
           IN  <<Sextet(n \div 262144), Sextet((n \div 4096) % 64),
                 Sextet((n \div 64) % 64), Sextet(n % 64)>>
                   \o btoa(SubSeq(bytes, 4, Len(bytes)))

\* String.prototype.replace(/x/g, y) on a text of characters
replaceAll(text, x, y) ==
    [i \in 1..Len(text) |-> IF text[i] = x THEN y ELSE text[i]]

\* mutant: the padding is kept
ltArrayBufferToBase64Url_padded(bytes) ==
    replaceAll(replaceAll(btoa(bytes), "+", "-"), "/", "_")

\* ltArrayBufferToBase64Url(buffer)
ltArrayBufferToBase64Url(bytes) ==
    LET NotPad(c) == c # "="
    IN  SelectSeq(replaceAll(replaceAll(btoa(bytes), "+", "-"), "/", "_"),
                  NotPad)

\* atob without its padding: four characters give three bytes, a rest of
\* three gives two, a rest of two gives one
RECURSIVE atobData(_)
atobData(text) ==
    CASE Len(text) = 0 -> <<>>
      [] Len(text) = 2 ->
           LET n == SextetOf(text[1]) * 262144 + SextetOf(text[2]) * 4096
           IN  <<n \div 65536>>
      [] Len(text) = 3 ->
           LET n == SextetOf(text[1]) * 262144 + SextetOf(text[2]) * 4096
                        + SextetOf(text[3]) * 64
           IN  <<n \div 65536, (n \div 256) % 256>>
      [] OTHER ->
           LET n == SextetOf(text[1]) * 262144 + SextetOf(text[2]) * 4096
                        + SextetOf(text[3]) * 64 + SextetOf(text[4])
           IN  <<n \div 65536, (n \div 256) % 256, n % 256>>
                   \o atobData(SubSeq(text, 5, Len(text)))

\* atob(text): up to two trailing '=' of a text whose length is a multiple
\* of four are dropped; a character outside the alphabet, or a rest of one
\* character, throws InvalidCharacterError
atob(text) ==
    LET pads == IF Len(text) % 4 # 0 THEN 0
                ELSE IF Len(text) >= 2 /\ text[Len(text)] = "="
                        /\ text[Len(text) - 1] = "=" THEN 2
                ELSE IF Len(text) >= 1 /\ text[Len(text)] = "=" THEN 1
                ELSE 0
        data == SubSeq(text, 1, Len(text) - pads)
    IN  IF (\A i \in 1..Len(data) : IsBase64Char(data[i])) /\ Len(data) % 4 # 1
        THEN [kind |-> "bytes", bytes |-> atobData(data)]
        ELSE [kind |-> "throws", bytes |-> <<>>]

\* ltBase64UrlToUint8Array(base64url)
ltBase64UrlToUint8Array(text) ==
    LET base64 == replaceAll(replaceAll(text, "-", "+"), "_", "/")
        padding == [i \in 1..((4 - (Len(base64) % 4)) % 4) |-> "="]
    IN  atob(base64 \o padding)

\* the codec at rest, and with a buffer waiting to be encoded
NoBytes == [kind |-> "none", bytes |-> <<>>]
CxIdle == [pc |-> "idle", bytes |-> <<>>, text |-> <<>>, out |-> NoBytes]
CxGiven(bytes) == [CxIdle EXCEPT !.pc = "given", !.bytes = bytes]

\* a buffer is encoded for the server
LtArrayBufferToBase64Url ==
    /\ cx.pc = "given"
    /\ cx' = [cx EXCEPT !.pc = "encoded",
                        !.text = ltArrayBufferToBase64Url(cx.bytes)]
    /\ UNCHANGED <<storeVars, authVars, af, clientVars, wire, ic, ft, pk, server, tk, tus>>

\* the text is decoded again
LtBase64UrlToUint8Array ==
    /\ cx.pc = "encoded"
    /\ cx' = [cx EXCEPT !.pc = "decoded",
                        !.out = ltBase64UrlToUint8Array(cx.text)]
    /\ UNCHANGED <<storeVars, authVars, af, clientVars, wire, ic, ft, pk, server, tk, tus>>

------------------------------------------------------------------------------
(* The text of the bearer token record (lib/index.ts getLtJwtToken,
   setLtJwtToken): JSON quoting and URI encoding, character by character *)

\* bound: length of a token text
MaxTokenLen == 2

Quote     == "\""
Backslash == "\\"
TokenChars == {"e", ".", "%", Quote, Backslash}

RECURSIVE Texts(_, _)
Texts(chars, n) ==
    IF n = 0 THEN {<<>>}
    ELSE Texts(chars, n - 1)
           \cup {Append(w, c) : w \in {v \in Texts(chars, n - 1) : Len(v) = n - 1},
                                c \in chars}

\* a string value or null; a thrown error where a conversion can throw
Null == [kind |-> "null", text |-> <<>>]
Str(text) == [kind |-> "string", text |-> text]
Thrown == [kind |-> "throws", text |-> <<>>]

\* JSON.stringify of a string
RECURSIVE jsonEscape(_)
jsonEscape(text) ==
    IF text = <<>> THEN <<>>
    ELSE (IF Head(text) \in {Quote, Backslash}
          THEN <<Backslash, Head(text)>> ELSE <<Head(text)>>)
             \o jsonEscape(Tail(text))

jsonStringify(text) == <<Quote>> \o jsonEscape(text) \o <<Quote>>

\* JSON.parse of a text that starts and ends with a quote
RECURSIVE jsonUnescape(_)
jsonUnescape(body) ==
    CASE body = <<>> -> Str(<<>>)
      [] body # <<>> /\ Head(body) = Quote -> Thrown
      [] body # <<>> /\ Head(body) = Backslash ->
           IF Len(body) >= 2 /\ body[2] \in {Quote, Backslash}
           THEN LET rest == jsonUnescape(SubSeq(body, 3, Len(body)))
                IN  IF rest.kind = "throws" THEN Thrown
                    ELSE Str(<<body[2]>> \o rest.text)
           ELSE Thrown
      [] OTHER ->
           LET rest == jsonUnescape(Tail(body))
           IN  IF rest.kind = "throws" THEN Thrown
               ELSE Str(<<Head(body)>> \o rest.text)

jsonParse(text) ==
    IF Len(text) >= 2 /\ Head(text) = Quote /\ text[Len(text)] = Quote
    THEN jsonUnescape(SubSeq(text, 2, Len(text) - 1))
    ELSE Thrown

\* encodeURIComponent / decodeURIComponent on the characters in use
RECURSIVE encodeURIComponent(_)
encodeURIComponent(text) ==
    IF text = <<>> THEN <<>>
    ELSE (CASE Head(text) = Quote     -> <<"%", "2", "2">>
            [] Head(text) = Backslash -> <<"%", "5", "C">>
            [] Head(text) = "%"       -> <<"%", "2", "5">>
            [] OTHER                  -> <<Head(text)>>)
             \o encodeURIComponent(Tail(text))

RECURSIVE decodeURIComponent(_)
decodeURIComponent(text) ==
    CASE text = <<>> -> Str(<<>>)
      [] text # <<>> /\ Head(text) = "%" ->
           LET code == IF Len(text) >= 3 THEN SubSeq(text, 2, 3) ELSE <<>>
               char == CASE code = <<"2", "2">> -> Quote
                         [] code = <<"5", "C">> -> Backslash
                         [] code = <<"2", "5">> -> "%"
                         [] OTHER -> "URIError"
               rest == IF char = "URIError" THEN Thrown
                       ELSE decodeURIComponent(SubSeq(text, 4, Len(text)))
           IN  IF rest.kind = "throws" THEN Thrown
               ELSE Str(<<char>> \o rest.text)
      [] OTHER ->
           LET rest == decodeURIComponent(Tail(text))
           IN  IF rest.kind = "throws" THEN Thrown
               ELSE Str(<<Head(text)>> \o rest.text)

\* the value of the lt-jwt-token record: none, or the text after the '='
NoRecord == [kind |-> "absent", text |-> <<>>]
Stored(text) == [kind |-> "stored", text |-> text]

\* mutant: the token is stored without JSON quoting and read as written
tokenTextWritten_unquoted(token) ==
    IF token.kind = "string" /\ token.text # <<>>
    THEN Stored(token.text)
    ELSE NoRecord

\* setLtJwtToken(token): the record it leaves
tokenTextWritten(token) ==
    IF token.kind = "string" /\ token.text # <<>>
    THEN Stored(encodeURIComponent(jsonStringify(token.text)))
    ELSE NoRecord

\* what a useCookie ref holding a string leaves: the URI-encoded string
tokenTextOfRef(token) ==
    IF token.kind = "string"
    THEN Stored(encodeURIComponent(token.text))
    ELSE NoRecord

\* getLtJwtToken(): the value it returns for a record
tokenTextRead(record) ==
    IF record.kind = "absent" THEN Null
    ELSE LET value == decodeURIComponent(record.text)
         IN  CASE value.kind = "throws" -> Null
               [] value.kind # "throws" /\ value.text # <<>>
                    /\ Head(value.text) = Quote
                    /\ value.text[Len(value.text)] = Quote ->
                    IF jsonParse(value.text).kind = "throws" THEN Null
                    ELSE jsonParse(value.text)
               [] OTHER -> IF value.text # <<>> THEN value ELSE Null

\* nothing stored, nothing read yet (read is the value of the last
\* getLtJwtToken() since the record was written)
TkFresh == [op |-> "init", by |-> "none", token |-> Null, record |-> NoRecord, read |-> Null]

\* setLtJwtToken(token) on the text of the record
SetLtJwtTokenText(token) ==
    /\ ~server
    /\ tk' = [tk EXCEPT !.op = "setLtJwtToken", !.by = "setLtJwtToken", !.token = token,
                        !.record = tokenTextWritten(token), !.read = Null]
    /\ UNCHANGED <<storeVars, authVars, af, clientVars, wire, ic, ft, pk, cx, server, tus>>

\* the jwtToken ref of useLtAuth() is assigned a token
UseCookieTokenText(token) ==
    /\ ~server
    /\ tk' = [tk EXCEPT !.op = "useCookie", !.by = "useCookie", !.token = token,
                        !.record = tokenTextOfRef(token), !.read = Null]
    /\ UNCHANGED <<storeVars, authVars, af, clientVars, wire, ic, ft, pk, cx, server, tus>>

\* getLtJwtToken() on the text of the record
GetLtJwtTokenText ==
    /\ ~server
    /\ tk' = [tk EXCEPT !.op = "getLtJwtToken", !.read = tokenTextRead(tk.record)]
    /\ UNCHANGED <<storeVars, authVars, af, clientVars, wire, ic, ft, pk, cx, server, tus>>

-----------------------------------------------------------------------------
(* Auth client factory: plugin registry and singleton (auth-client.ts) *)

\* bounds: constructions of a client, plugins held by the registry
MaxBuilt == 3
MaxRegistry == 2

\* plugins an application registers, and the one it passes in the config
RegistryPlugins == {"organization", "magicLink"}
ConfigPlugins == {<<>>, <<"ext">>}

\* the lists registerLtAuthPlugins is called with
PluginLists ==
    {<<>>} \cup {<<p>> : p \in RegistryPlugins}
           \cup {<<p, q>> : p \in RegistryPlugins, q \in RegistryPlugins}

\* null for _authClientSingleton and for _lastClientConfig
NoClient == [kind |-> "null"]
NoConfig == [kind |-> "null"]

\* LtAuthClientConfig: an optional flag is "undefined", "true" or "false"
Configs ==
    {[kind |-> "config", enableAdmin |-> a, enableTwoFactor |-> "undefined",
      enablePasskey |-> p, plugins |-> ps] :
        a \in {"undefined", "false"}, p \in {"true", "false"},
        ps \in ConfigPlugins}

\* {}
EmptyConfig ==
    [kind |-> "config", enableAdmin |-> "undefined",
     enableTwoFactor |-> "undefined", enablePasskey |-> "undefined",
     plugins |-> <<>>]

\* a destructured flag with default true
enabled(flag) == flag # "false"

\* mutant: the registry comes before the plugins of the config
clientPlugins_registryFirst(config, reg) ==
    (IF enabled(config.enableAdmin) THEN <<"admin">> ELSE <<>>)
        \o (IF enabled(config.enableTwoFactor) THEN <<"twoFactor">> ELSE <<>>)
        \o (IF enabled(config.enablePasskey) THEN <<"passkey">> ELSE <<>>)
        \o reg
        \o config.plugins

\* the plugin list createLtAuthClient(config) hands to createAuthClient
clientPlugins(config, reg) ==
    (IF enabled(config.enableAdmin) THEN <<"admin">> ELSE <<>>)
        \o (IF enabled(config.enableTwoFactor) THEN <<"twoFactor">> ELSE <<>>)
        \o (IF enabled(config.enablePasskey) THEN <<"passkey">> ELSE <<>>)
        \o config.plugins
        \o reg

\* createLtAuthClient(config): a new object, told apart by id
createLtAuthClient(config, reg, id) ==
    [kind |-> "client", id |-> id, config |-> config,
     plugins |-> clientPlugins(config, reg)]

\* mutant: a registration never marks the client for recreation
markedForRecreation_never(single, changed) == changed

\* registerLtAuthPlugins: if (_authClientSingleton) _pluginsChangedAfterCreation = true
markedForRecreation(single, changed) ==
    IF single # NoClient THEN TRUE ELSE changed

RegisterLtAuthPlugins(plugins) ==
    /\ Len(registry) + Len(plugins) <= MaxRegistry
    /\ registry' = registry \o plugins
    /\ pluginsChanged' = markedForRecreation(singleton, pluginsChanged)
    /\ cev' = [op |-> "register", constructed |-> 0, before |-> singleton,
               wasPending |-> cev.pending,
               pending |-> cev.pending \/ singleton # NoClient,
               passed |-> NoConfig, last |-> cev.last]
    /\ UNCHANGED <<singleton, lastConfig, built, storeVars, authVars, af, wire, sideVars>>

ClearLtAuthPluginRegistry ==
    /\ registry' = <<>>
    /\ cev' = [op |-> "clearRegistry", constructed |-> 0, before |-> singleton,
               wasPending |-> cev.pending, pending |-> cev.pending,
               passed |-> NoConfig, last |-> cev.last]
    /\ UNCHANGED <<pluginsChanged, singleton, lastConfig, built, storeVars,
                   authVars, af, wire, sideVars>>

ResetLtAuthClientSingleton ==
    /\ singleton' = NoClient
    /\ pluginsChanged' = FALSE
    /\ cev' = [op |-> "reset", constructed |-> 0, before |-> singleton,
               wasPending |-> cev.pending, pending |-> FALSE,
               passed |-> NoConfig, last |-> cev.last]
    /\ UNCHANGED <<registry, lastConfig, built, storeVars, authVars, af, wire, sideVars>>

\* mutant: the configuration passed first is the one that stays recorded
storedConfig_first(config, last) == IF last # NoConfig THEN last ELSE config

\* mutant: the stored configuration is replaced on every call
storedConfig_replaced(config, last) == config

\* getOrCreateLtAuthClient: if (config) _lastClientConfig = config
storedConfig(config, last) == IF config # NoConfig THEN config ELSE last

\* getOrCreateLtAuthClient(config?)
GetOrCreateLtAuthClient(config) ==
    LET stored == storedConfig(config, lastConfig)
        stale  == pluginsChanged /\ singleton # NoClient
        kept   == IF stale THEN NoClient ELSE singleton
        create == kept = NoClient
    IN  /\ create => built < MaxBuilt
        /\ lastConfig' = stored
        /\ pluginsChanged' = IF stale THEN FALSE ELSE pluginsChanged
        /\ singleton' = IF create
                        THEN createLtAuthClient(
                                 IF stored # NoConfig THEN stored ELSE EmptyConfig,
                                 registry, built + 1)
                        ELSE kept
        /\ built' = IF create THEN built + 1 ELSE built
        /\ cev' = [op |-> "getOrCreate",
                   constructed |-> IF create THEN 1 ELSE 0,
                   before |-> singleton, wasPending |-> cev.pending,
                   pending |-> FALSE, passed |-> config,
                   last |-> IF config = NoConfig THEN cev.last ELSE config]
        /\ UNCHANGED <<registry, storeVars, authVars, af, wire, sideVars>>

\* the configurations createLtAuthClient is called with directly: every
\* combination of the three flags, and up to two plugins of its own
FactoryPlugins == ConfigPlugins \cup {<<"ext2", "ext">>}
FactoryConfigs ==
    {[kind |-> "config", enableAdmin |-> a, enableTwoFactor |-> tf,
      enablePasskey |-> p, plugins |-> ps] :
        a \in {"undefined", "true", "false"},
        tf \in {"undefined", "true", "false"},
        p \in {"undefined", "true", "false"},
        ps \in FactoryPlugins}

\* the application calls createLtAuthClient(config) itself: a client of its
\* own, the singleton is not involved
CreateLtAuthClient(config) ==
    /\ built < MaxBuilt
    /\ built' = built + 1
    /\ cev' = [op |-> "create", constructed |-> 1, before |-> singleton,
               wasPending |-> cev.pending, pending |-> cev.pending,
               passed |-> config, last |-> cev.last,
               client |-> createLtAuthClient(
                              IF config # NoConfig THEN config ELSE EmptyConfig,
                              registry, built + 1)]
    /\ UNCHANGED <<registry, pluginsChanged, singleton, lastConfig, storeVars,
                   authVars, af, wire, sideVars>>

-----------------------------------------------------------------------------
(* Password hashing at the call sites that transmit credentials *)

Passwords == {"test", "hunter2", "secret"}
Emails    == {"a@x.io", "b@x.io"}
Names     == {"Ann", "Bob"}
ResetTokens == {"r1", "r2"}
\* an optional argument: rememberMe, the SDK's fetch options
Optional(v) == {"undefined", v}

\* ltSha256(message): the lowercase hex SHA-256 digest
ltSha256(message) ==
    CASE message = "test" ->
           "9f86d081884c7d659a2feaa0c55ad015a3bf4f1b2b0b822cd15d6c15b0f00a08"
      [] message = "hunter2" ->
           "f52fbd32b2b3b86ff88ef6c490628285f482af15ddcb29541f94bcf526a3f6c7"
      [] message = "secret" ->
           "2bb80d537b1da3e38bd30361aa855686bde0eacd7162fef6a25fe97bf527a25b"

\* {...params, password: hashedPassword}
emailSent(params) == [params EXCEPT !.password = ltSha256(@)]

\* mutant: only the new password is hashed
changePasswordSent_newOnly(params) ==
    [currentPassword |-> params.currentPassword,
     newPassword |-> ltSha256(params.newPassword)]

\* { currentPassword: hashedCurrent, newPassword: hashedNew }
changePasswordSent(params) ==
    [currentPassword |-> ltSha256(params.currentPassword),
     newPassword |-> ltSha256(params.newPassword)]

\* { newPassword: hashedPassword, token: params.token }
resetPasswordSent(params) ==
    [newPassword |-> ltSha256(params.newPassword), token |-> params.token]

\* { password: hashedPassword }
twoFactorSent(params) == [password |-> ltSha256(params.password)]

\* body of POST /system-setup/init
initSetupBody(params) ==
    [email |-> params.email, password |-> ltSha256(params.password),
     name |-> params.name]

\* a wrapper hands `sent` and the untouched options to the provider SDK
Transmitted(method, params, options, sent) ==
    [method |-> method, params |-> params, options |-> options,
     sent |-> sent, sentOptions |-> options]

ClientSignInEmail(params, options) ==
    /\ wire' = Transmitted("signIn.email", params, options, emailSent(params))
    /\ UNCHANGED <<storeVars, authVars, af, clientVars, sideVars>>

ClientSignUpEmail(params, options) ==
    /\ wire' = Transmitted("signUp.email", params, options, emailSent(params))
    /\ UNCHANGED <<storeVars, authVars, af, clientVars, sideVars>>

ClientChangePassword(params, options) ==
    /\ wire' = Transmitted("changePassword", params, options,
                           changePasswordSent(params))
    /\ UNCHANGED <<storeVars, authVars, af, clientVars, sideVars>>

ClientResetPassword(params, options) ==
    /\ wire' = Transmitted("resetPassword", params, options,
                           resetPasswordSent(params))
    /\ UNCHANGED <<storeVars, authVars, af, clientVars, sideVars>>

ClientTwoFactorEnable(params, options) ==
    /\ wire' = Transmitted("twoFactor.enable", params, options,
                           twoFactorSent(params))
    /\ UNCHANGED <<storeVars, authVars, af, clientVars, sideVars>>

ClientTwoFactorDisable(params, options) ==
    /\ wire' = Transmitted("twoFactor.disable", params, options,
                           twoFactorSent(params))
    /\ UNCHANGED <<storeVars, authVars, af, clientVars, sideVars>>

ClientTwoFactorGenerateBackupCodes(params, options) ==
    /\ wire' = Transmitted("twoFactor.generateBackupCodes", params, options,
                           twoFactorSent(params))
    /\ UNCHANGED <<storeVars, authVars, af, clientVars, sideVars>>

\* useSystemSetup().initSetup(params): $fetch takes no caller options
InitSetup(params) ==
    /\ wire' = Transmitted("initSetup", params, "undefined",
                           initSetupBody(params))
    /\ UNCHANGED <<storeVars, authVars, af, clientVars, sideVars>>

\* the parameter types of the wrappers
SignInParams ==
    [email : Emails, password : Passwords, rememberMe : Optional("true")]
SignUpParams == [email : Emails, name : Names, password : Passwords]
ChangePasswordParams == [currentPassword : Passwords, newPassword : Passwords]
ResetPasswordParams == [newPassword : Passwords, token : ResetTokens]
TwoFactorParams == [password : Passwords]

-----------------------------------------------------------------------------
(* 401 interceptor: plugins/auth-interceptor.client.ts *)

\* bound: 401 responses that reach handleUnauthorized within one cooldown
MaxBurst == 3

\* request URLs and router paths as path segments
InterceptedUrls ==
    {<<"api", "data">>,
     <<"api", "iam", "get-session">>,
     <<"api", "iam", "token">>,
     <<"api", "iam", "passkey", "verify-registration">>}

Routes == {<<"dashboard">>, <<"auth", "login">>, <<"auth", "2fa">>}

\* authEndpoints: "/sign-in" ... matched by url.includes, so a segment that
\* begins with the name; "/passkey/" and "/two-factor/" need a following part
AuthEndpointNames ==
    {"sign-in", "sign-up", "sign-out", "forgot-password", "reset-password",
     "verify-email", "session", "token", "list-user-passkeys",
     "generate-register-options", "verify-registration",
     "generate-authenticate-options", "verify-authentication"}

isAuthEndpoint(url) ==
    \/ \E i \in 1..Len(url) : url[i] \in AuthEndpointNames
    \/ \E i \in 1..(Len(url) - 1) : url[i] \in {"passkey", "two-factor"}

\* mutant: only the login page is public
isPublicAuthRoute_loginOnly(route) ==
    /\ Len(route) >= 2
    /\ route[1] = "auth"
    /\ route[2] = "login"

\* defaultPublicPaths, matched by route.path.startsWith
isPublicAuthRoute(route) ==
    /\ Len(route) >= 2
    /\ route[1] = "auth"
    /\ route[2] \in {"login", "register", "forgot-password", "reset-password", "2fa"}

\* mutant: the isHandling401 flag is not consulted
passesGates_noFlag(i, url) ==
    ~isAuthEndpoint(url) /\ ~isPublicAuthRoute(i.route)

\* handleUnauthorized(requestUrl) gets past its three early returns
passesGates(i, url) ==
    ~i.isHandling401 /\ ~isAuthEndpoint(url) /\ ~isPublicAuthRoute(i.route)

\* the interceptor when the plugin is installed; since/clears/redirects count
\* within the current cooldown
IcIdle(route) ==
    [isHandling401 |-> FALSE, timers |-> 0, route |-> route,
     authedAtStart |-> FALSE, since |-> 0, clears |-> 0, redirects |-> 0]

\* handleUnauthorized(requestUrl) up to its return (it awaits nothing)
handleUnauthorized(url) ==
    IF passesGates(ic, url)
    THEN /\ ic' = [ic EXCEPT
                     !.isHandling401 = TRUE,
                     !.timers = @ + 1,
                     !.authedAtStart =
                         IF ic.isHandling401 THEN @ ELSE isAuthenticated,
                     !.since = @ + 1,
                     !.clears = IF isAuthenticated THEN @ + 1 ELSE @,
                     !.redirects = IF isAuthenticated THEN @ + 1 ELSE @]
         /\ IF isAuthenticated
            THEN clearUser
            ELSE UNCHANGED <<storeVars, lastSetUser>>
    ELSE /\ ic' = [ic EXCEPT
                     !.since = IF ic.isHandling401 /\ ~isAuthEndpoint(url)
                                  /\ ~isPublicAuthRoute(ic.route)
                               THEN @ + 1 ELSE @]
         /\ UNCHANGED <<storeVars, lastSetUser>>

\* the patched fetch / $fetch saw a 401 and called handleUnauthorized(url)
HandleUnauthorized(url) ==
    /\ ic.since < MaxBurst
    /\ handleUnauthorized(url)
    /\ ev' = [op |-> "handleUnauthorized", url |-> url]
    /\ af' = Disturbed(af)
    /\ UNCHANGED <<isLoading, ops, tokenReqs, fw, clientVars, wire, extraVars, ft, pk>>

\* setTimeout(() => { isHandling401 = false }, 1000) fires
CooldownEnds ==
    /\ ic.timers > 0
    /\ ic' = [IcIdle(ic.route) EXCEPT !.timers = ic.timers - 1]
    /\ UNCHANGED <<storeVars, authVars, af, clientVars, wire, extraVars, ft, pk>>

\* the router moves to another page
Navigate(route) ==
    /\ route # ic.route
    /\ ic' = [ic EXCEPT !.route = route]
    /\ UNCHANGED <<storeVars, authVars, af, clientVars, wire, extraVars, ft, pk>>

-----------------------------------------------------------------------------
(* The fetch the interceptor installs (auth-interceptor.client.ts 154-168)
   under ltAuthFetch and fetchWithAuth: a response passes through it, and
   through handleUnauthorized when it is a 401, before the caller sees it *)

\* globalThis.fetch: await originalNativeFetch, then handleUnauthorized(url)
\* for a 401, which runs up to its return before the response is handed on
patchedFetch(url, status) ==
    IF status = "401"
    THEN ic.since < MaxBurst /\ handleUnauthorized(url)
    ELSE UNCHANGED <<ic, storeVars, lastSetUser>>

\* ltAuthFetch(url) is called
PatchedLtAuthFetchCall(url) ==
    /\ af.pc \in {"idle", "done"}
    /\ af' = [afIssued(af, afOnCall(docState, docToken)) EXCEPT !.url = url]
    /\ UNCHANGED <<storeVars, authVars, clientVars, wire, sideVars>>

\* its first response arrives through the patched fetch
PatchedLtAuthFetchFirst(status) ==
    /\ af.pc = "first"
    /\ patchedFetch(af.url, status)
    /\ af' = afOnFirst(af, status, isLtAuthenticated(docState'))
    /\ ev' = [op |-> "patchedFetch", url |-> af.url, status |-> status]
    /\ UNCHANGED <<isLoading, ops, tokenReqs, fw, clientVars, wire, extraVars, ft, pk>>

\* the response of its re-issued request arrives through the patched fetch
PatchedLtAuthFetchRetry(status) ==
    /\ af.pc = "retry"
    /\ patchedFetch(af.url, status)
    /\ af' = afOnRetry(af, status)
    /\ ev' = [op |-> "patchedFetch", url |-> af.url, status |-> status]
    /\ UNCHANGED <<isLoading, ops, tokenReqs, fw, clientVars, wire, extraVars, ft, pk>>

\* the first response of fetchWithAuth arrives through the patched fetch
PatchedFetchWithAuthFirst(status) ==
    /\ fw.pc = "first"
    /\ patchedFetch(fw.url, status)
    /\ IF fwNeedsSwitch(status)'
       THEN /\ fw' = [fw EXCEPT !.pc = "token", !.first = status]
            /\ pk' = pk
       ELSE /\ fw' = FwIdle
            /\ pk' = fwReturned(pk, status)
    /\ ev' = [op |-> "patchedFetch", url |-> fw.url, status |-> status]
    /\ af' = Disturbed(af)
    /\ UNCHANGED <<isLoading, ops, tokenReqs, clientVars, wire, extraVars, ft>>

\* the response of its re-issued request arrives through the patched fetch
PatchedFetchWithAuthRetry(status) ==
    /\ fw.pc = "retry"
    /\ patchedFetch(fw.url, status)
    /\ fw' = FwIdle
    /\ pk' = fwReturned(pk, status)
    /\ ev' = [op |-> "patchedFetch", url |-> fw.url, status |-> status]
    /\ af' = Disturbed(af)
    /\ UNCHANGED <<isLoading, ops, tokenReqs, clientVars, wire, extraVars, ft>>

-----------------------------------------------------------------------------
(* Resumable uploads: useLtTusUpload (composables/use-lt-auth-client.ts)   *)
(* The status of an upload item is all that is kept of it; the Map keeps   *)
(* insertion order, which is the order of the ids.                         *)

\* bound: files ever passed to addFiles of one instance
MaxFiles == 4

\* parallelUploads after the defaults were merged with the options (3 when
\* the option is not given)
ParallelOptions == {2, 3}

Ids == 1..MaxFiles
UploadStatuses == {"idle", "uploading", "paused", "completed", "error"}

\* no addFiles call is in flight
NotAdding == [files |-> 0, id |-> 0]

\* the state useLtTusUpload(defaultOptions) sets up: both maps are empty
TusFresh(autoStart, parallelUploads) ==
    [autoStart |-> autoStart, parallelUploads |-> parallelUploads,
     nextId |-> 1,
     uploadItems |-> [id \in Ids |-> "none"],
     tusUploads |-> {},
     starting |-> {},
     running |-> {},
     adding |-> NotAdding]

\* uploads.value.filter(u => statuses.includes(u.status)), as ids in Map order
uploadsWith(t, statuses) ==
    SelectSeq([i \in Ids |-> i], LAMBDA i : t.uploadItems[i] \in statuses)

\* uploads.value.filter((u) => u.status === "uploading").length
currentlyUploading(t) == Len(uploadsWith(t, {"uploading"}))

\* defaultConfig.parallelUploads || 3
parallelLimit(t) == IF t.parallelUploads = 0 THEN 3 ELSE t.parallelUploads

\* updateItem(id, {status}): nothing happens for an id the Map does not hold
updateItem(t, id, status) ==
    IF t.uploadItems[id] # "none" THEN [t EXCEPT !.uploadItems[id] = status] ELSE t

\* mutant: startUpload leaves the status to the first progress event
startUpload_late(t, id) ==
    IF t.uploadItems[id] \notin {"none", "uploading"} /\ id \in t.tusUploads
    THEN [t EXCEPT !.starting = @ \cup {id}]
    ELSE t

\* startUpload(id): an item that has its tus.Upload and is not uploading is
\* marked uploading; tusUpload.start() follows findPreviousUploads()
startUpload(t, id) ==
    IF t.uploadItems[id] \notin {"none", "uploading"} /\ id \in t.tusUploads
    THEN [updateItem(t, id, "uploading") EXCEPT !.starting = @ \cup {id}]
    ELSE t

\* list.forEach((item) => startUpload(item.id))
RECURSIVE startEach(_, _)
startEach(t, list) ==
    IF list = <<>> THEN t ELSE startEach(startUpload(t, Head(list)), Tail(list))

\* pending.slice(0, Math.max(0, limit))
sliceTo(list, limit) ==
    SubSeq(list, 1, IF limit < 0 THEN 0 ELSE IF limit > Len(list) THEN Len(list) ELSE limit)

\* mutant: startAll starts every pending item
startAll_unlimited(t) == startEach(t, uploadsWith(t, {"idle", "paused"}))

\* startAll(): the first pending items, as many as the limit leaves room for
startAll(t) ==
    startEach(t, sliceTo(uploadsWith(t, {"idle", "paused"}),
                         parallelLimit(t) - currentlyUploading(t)))

\* the rest of the model is left alone by the upload composable
TusFrame ==
    UNCHANGED <<storeVars, authVars, af, clientVars, wire, ic, ft, pk, cx, server, tk>>

\* the loop body of addFiles up to await createTusUpload: the item is in the
\* Map with status idle
addedFile(t, left) ==
    [t EXCEPT !.uploadItems[t.nextId] = "idle",
              !.nextId = @ + 1,
              !.adding = [files |-> left, id |-> t.nextId]]

\* addFiles(files) with n files, up to the first await
AddFilesCall(n) ==
    /\ tus.adding = NotAdding
    /\ tus.nextId + n - 1 <= MaxFiles
    /\ tus' = addedFile(tus, n)
    /\ TusFrame

\* createTusUpload resolved: the tus.Upload is stored; the next file follows
\* or, after the last one, startAll() if autoStart is set
AddFilesCreated ==
    /\ tus.adding # NotAdding
    /\ LET stored == [tus EXCEPT !.tusUploads = @ \cup {tus.adding.id}]
           done   == [stored EXCEPT !.adding = NotAdding]
       IN  tus' = IF tus.adding.files > 1
                  THEN addedFile(stored, tus.adding.files - 1)
                  ELSE IF tus.autoStart THEN startAll(done) ELSE done
    /\ TusFrame

StartAll ==
    /\ tus' = startAll(tus)
    /\ TusFrame

StartUpload(id) ==
    /\ tus' = startUpload(tus, id)
    /\ TusFrame

\* resumeUpload(id) is startUpload(id)
ResumeUpload(id) ==
    /\ tus' = startUpload(tus, id)
    /\ TusFrame

\* resumeAll(): every paused item is resumed
ResumeAll ==
    /\ tus' = startEach(tus, uploadsWith(tus, {"paused"}))
    /\ TusFrame

\* retryUpload(id): an item in error becomes idle and is started
RetryUpload(id) ==
    /\ tus' = IF tus.uploadItems[id] = "error"
              THEN startUpload(updateItem(tus, id, "idle"), id)
              ELSE tus
    /\ TusFrame

\* pauseUpload(id): the transfer is aborted and the item marked paused,
\* whatever its status was
PauseUpload(id) ==
    /\ tus' = IF id \in tus.tusUploads
              THEN [updateItem(tus, id, "paused") EXCEPT !.running = @ \ {id}]
              ELSE tus
    /\ TusFrame

\* cancelUpload(id): the transfer is aborted, both maps drop the id
CancelUpload(id) ==
    /\ tus' = [tus EXCEPT !.running = IF id \in tus.tusUploads THEN @ \ {id} ELSE @,
                          !.tusUploads = @ \ {id},
                          !.uploadItems[id] = "none"]
    /\ TusFrame

\* findPreviousUploads() resolved: tusUpload.start()
TusStart(id) ==
    /\ id \in tus.starting
    /\ tus' = [tus EXCEPT !.starting = @ \ {id}, !.running = @ \cup {id}]
    /\ TusFrame

\* onSuccess of a running transfer
OnSuccess(id) ==
    /\ id \in tus.running
    /\ tus' = [updateItem(tus, id, "completed") EXCEPT !.running = @ \ {id}]
    /\ TusFrame

\* onError of a running transfer, after the retries
OnError(id) ==
    /\ id \in tus.running
    /\ tus' = [updateItem(tus, id, "error") EXCEPT !.running = @ \ {id}]
    /\ TusFrame

-----------------------------------------------------------------------------
(* Initial states *)

\* The store a page load finds: no records, records left by an earlier page
\* load, or a record that does not parse. The refs are read from it.
InitStore ==
    /\ docState \in {Absent, Malformed} \cup StateRecords
    /\ docToken \in {TokAbsent} \cup {TokJson(t) : t \in Tokens}
                        \cup {TokRaw(t) : t \in Tokens}
    /\ authState = CookieRefState(docState)
    /\ jwtToken = CookieRefToken(docToken)

\* a first page load: the store is empty and the refs hold nothing
InitStoreEmpty ==
    /\ docState = Absent
    /\ docToken = TokAbsent
    /\ authState = CookieRefState(docState)
    /\ jwtToken = CookieRefToken(docToken)

InitAuth ==
    /\ af = AfIdle
    /\ isLoading = FALSE
    /\ ops = {}
    /\ tokenReqs = NoTokenReqs
    /\ fw = FwIdle
    /\ ev = [op |-> "init"]
    /\ lastSetUser = user

\* the module state of auth-client.ts when it is loaded
InitClient ==
    /\ registry = <<>>
    /\ pluginsChanged = FALSE
    /\ singleton = NoClient
    /\ lastConfig = NoConfig
    /\ built = 0
    /\ cev = [op |-> "init", constructed |-> 0, before |-> NoClient,
              wasPending |-> FALSE, pending |-> FALSE,
              passed |-> NoConfig, last |-> NoConfig]

\* nothing was transmitted yet
InitWire == wire = [method |-> "none"]

\* the interceptor is installed and idle, the application is on a page
\* the first useLtAuth() has run: its request for the feature map is out
InitSide ==
    /\ ic = IcIdle(<<"dashboard">>)
    /\ ft = setupFeatures(FtFresh)
    /\ pk = PkIdle(FALSE)
    /\ cx = CxIdle
    /\ server = FALSE
    /\ tk = TkFresh
    /\ tus = TusFresh(TRUE, 3)

-----------------------------------------------------------------------------
(* SpecFetch: the store and the authenticated fetch of the lib layer *)

InitFetch == InitStore /\ InitAuth /\ InitClient /\ InitWire /\ InitSide

NextFetch ==
    \/ LtAuthFetchCall
    \/ \E status \in Outcomes : LtAuthFetchFirst(status)
    \/ \E answer \in TokenAnswers : LtAuthFetchToken(answer)
    \/ \E status \in Outcomes : LtAuthFetchRetry(status)
    \/ \E mode \in Modes : SetLtAuthMode(mode)
    \/ \E token \in Tokens \cup {NoToken} : SetLtJwtToken(token)
    \/ \E u \in Users \cup {NoUser}, mode \in Modes : SetUser(u, mode)
    \/ ClearUser

SpecFetch == InitFetch /\ [][NextFetch]_vars

\* the network answers every request (or the request fails)
FetchAnswered ==
    \/ \E status \in Outcomes : LtAuthFetchFirst(status)
    \/ \E answer \in TokenAnswers : LtAuthFetchToken(answer)
    \/ \E status \in Outcomes : LtAuthFetchRetry(status)

SpecFetchFair == SpecFetch /\ WF_vars(FetchAnswered)

\* C1: a call made in cookie mode with a stored user, whose first response is
\* a 401 and whose token request is answered OK with a token, returns the
\* response of the re-issued request; when nothing else wrote to the store
\* during the call, getLtAuthMode() is then 'jwt' and getLtJwtToken() is the
\* issued token.
C1_Switched ==
    /\ af.pc = "done"
    /\ af.authMode = "cookie"
    /\ af.user0
    /\ af.first = "401"
    /\ af.answer.kind = "ok"

C1_SwitchAndRetry ==
    C1_Switched =>
        /\ af.result.req = 2
        /\ af.quiet => /\ getLtAuthMode(docState) = "jwt"
                       /\ getLtJwtToken(docToken) = af.answer.token

C1_Witness ==
    /\ C1_Switched
    /\ af.quiet
    /\ af.jwtToken # af.answer.token
    /\ af.result = [req |-> 2, status |-> "200"]

\* C2: a 401 in cookie mode while isLtAuthenticated() is false (no record, an
\* unparsable record, or user null) makes no token request, returns the 401
\* and leaves mode and token as the call found them.
C2_Anonymous401 ==
    /\ af.pc = "done"
    /\ af.authMode = "cookie"
    /\ af.first = "401"
    /\ ~af.authed

C2_NoSwitchWhenAnonymous ==
    C2_Anonymous401 =>
        /\ af.tokenCalls = 0
        /\ af.reqs = 1
        /\ af.result = [req |-> 1, status |-> "401"]
        /\ af.quiet => /\ getLtAuthMode(docState) = af.authMode
                       /\ getLtJwtToken(docToken) = af.jwtToken

C2_Witness ==
    /\ C2_Anonymous401
    /\ af.quiet
    /\ docState.kind = "malformed"
    /\ af.jwtToken # NoToken

\* C7: one call issues the caller's request at most twice and the token
\* request at most once; a failed token request ends the call with the first
\* response, the response of the re-issued request ends it whatever its
\* status, and every call in flight ends.
C7_Counts ==
    /\ af.reqs <= 2
    /\ af.tokenCalls <= 1
    /\ af.reqs + af.tokenCalls <= 3
    /\ af.answer.kind \in {"empty", "notOk", "throws"} =>
           af.pc = "done" /\ af.reqs = 1 /\ af.result.req = 1
    /\ af.pc = "retry" => af.reqs = 2 /\ af.tokenCalls = 1
    /\ af.result.req = 2 => af.pc = "done" /\ af.reqs = 2 /\ af.tokenCalls = 1

C7_AtMostThreeRequests ==
    /\ []C7_Counts
    /\ (af.pc \in {"first", "token", "retry"}) ~> (af.pc = "done")

C7_Witness ==
    /\ af.pc = "done"
    /\ af.result = [req |-> 2, status |-> "401"]
    /\ af.reqs + af.tokenCalls = 3

\* C11: right after setLtAuthMode(m), with no other write in between,
\* getLtAuthMode() returns m, whatever the store held before.
C11_ModeRoundTrip ==
    ev.op = "setLtAuthMode" => getLtAuthMode(docState) = ev.mode


\* C26: setLtAuthMode(mode) leaves the bearer token record alone; a stored
\* record keeps its user and gets the mode, an absent record becomes
\* {user: null, authMode: mode}, and an unparsable one is left as it is.
C26_SetModeKeepsUser ==
    [][\A mode \in Modes :
         SetLtAuthMode(mode) =>
            /\ docToken' = docToken
            /\ docState.kind = "record" =>
                   /\ docState'.kind = "record"
                   /\ docState'.user = docState.user
                   /\ docState'.authMode = mode
            /\ docState.kind = "absent" => docState' = Record(NoUser, mode)
            /\ docState.kind = "malformed" => docState' = docState]_vars

\* the mode of a record with a user was changed while a token was stored
C26_Witness ==
    /\ ev.op = "setLtAuthMode" /\ ev.before = "record"
    /\ docState.kind = "record" /\ docState.user \in Users
    /\ docState.authMode = ev.mode /\ ev.mode = "jwt"
    /\ docToken.kind # "absent"

\* C24: the first request of an ltAuthFetch call carries a bearer header
\* exactly when the stored AuthState record has authMode 'jwt' and a
\* bearer token record is stored, and then it carries that token; with
\* the stored mode 'cookie' (or no readable record) it carries none.
C24_BearerOnlyInJwtMode ==
    [][LtAuthFetchCall =>
         /\ af'.pc = "first" /\ af'.reqs = 1
         /\ IF docState.kind = "record" /\ docState.authMode = "jwt"
                /\ docToken.kind # "absent"
            THEN af'.bearer = docToken.val /\ af'.bearer \in Tokens
            ELSE af'.bearer = NoToken]_vars

\* a call was made with a token stored in cookie mode, and one in jwt mode
C24_Witness ==
    /\ af.pc = "first" /\ af.quiet
    /\ docState.kind = "record" /\ docState.authMode = "cookie"
    /\ docToken.kind # "absent"
    /\ af.bearer = NoToken
C24_WitnessJwt ==
    /\ af.pc = "first" /\ af.quiet
    /\ docState.kind = "record" /\ docState.authMode = "jwt"
    /\ docToken.kind = "raw" /\ af.bearer = docToken.val


------------------------------------------------------------------------------
(* SpecCredentials: the requests of ltAuthFetch for callers with any init *)

\* the credentials member of the caller's init
InitCredentials == {"undefined", "omit", "same-origin", "include"}

NextCredentials ==
    \/ LtAuthFetchCall
    \/ \E status \in Outcomes : LtAuthFetchFirst(status)
    \/ \E answer \in TokenAnswers : LtAuthFetchToken(answer)
    \/ \E status \in Outcomes : LtAuthFetchRetry(status)

InitCredentialsSpec ==
    /\ InitStore /\ InitClient /\ InitWire /\ InitSide
    /\ af \in {[AfIdle EXCEPT !.init = c] : c \in InitCredentials}
    /\ isLoading = FALSE /\ ops = {} /\ tokenReqs = NoTokenReqs /\ fw = FwIdle
    /\ ev = [op |-> "init"] /\ lastSetUser = user

SpecCredentials == InitCredentialsSpec /\ [][NextCredentials]_vars

\* C25: whatever credentials setting the caller's init holds and whatever
\* the stored mode, every request ltAuthFetch has issued, the first and
\* the re-issued one, was sent with credentials 'include'.
C25_CredentialsAlwaysIncluded ==
    /\ af.reqs > 0 => af.creds = "include"
    /\ af.reqs = 0 => af.creds = "none"
    /\ af.pc \in {"first", "retry"} => af.reqs > 0

\* a caller with credentials 'omit' had its request re-issued after the
\* switch, and one called in jwt mode
C25_Witness ==
    /\ af.pc = "retry" /\ af.reqs = 2 /\ af.init = "omit"
    /\ af.authMode = "cookie" /\ af.creds = "include"
C25_WitnessJwt ==
    /\ af.pc = "first" /\ af.init = "same-origin" /\ af.authMode = "jwt"
    /\ af.bearer # NoToken /\ af.creds = "include"


------------------------------------------------------------------------------
(* SpecReaders: the store readers over every store content, in the browser
   and on the server *)

NextReaders ==
    \/ GetLtAuthMode
    \/ GetLtJwtToken
    \/ IsLtAuthenticated

InitReadersSpec ==
    /\ docState \in {Absent, Malformed} \cup StateRecords
    /\ docToken \in {TokAbsent, TokMalformed}
                        \cup {TokJson(tok) : tok \in Tokens}
                        \cup {TokRaw(tok) : tok \in Tokens}
    /\ authState = CookieRefState(docState)
    /\ jwtToken = CookieRefToken(docToken)
    /\ InitAuth /\ InitClient /\ InitWire
    /\ ic = IcIdle(<<"dashboard">>)
    /\ ft = setupFeatures(FtFresh)
    /\ pk = PkIdle(FALSE)
    /\ cx = CxIdle
    /\ server \in BOOLEAN
    /\ tk = TkFresh
    /\ tus = TusFresh(TRUE, 3)

SpecReaders == InitReadersSpec /\ [][NextReaders]_vars

\* C27: each reader returns a value, never an error: for an absent or
\* unparsable record, and on the server, getLtAuthMode() gives 'cookie',
\* isLtAuthenticated() false and getLtJwtToken() null; isLtAuthenticated()
\* is true exactly for a stored, parsable record with a user, read in the
\* browser.
C27_ReadersNeverThrow ==
    /\ ev.op = "getLtAuthMode" =>
          /\ ev.ret \in Modes
          /\ (server \/ docState.kind \in {"absent", "malformed"}) =>
                 ev.ret = "cookie"
    /\ ev.op = "isLtAuthenticated" =>
          /\ ev.ret \in BOOLEAN
          /\ ev.ret <=> (~server /\ docState.kind = "record"
                             /\ docState.user \in Users)
    /\ ev.op = "getLtJwtToken" =>
          /\ ev.ret \in Tokens \cup {NoToken}
          /\ (server \/ docToken.kind \in {"absent", "malformed"}) =>
                 ev.ret = NoToken

\* the mode of an unparsable record was read in the browser; a record
\* with a user was read on the server; an unparsable token was read
C27_Witness ==
    ev.op = "getLtAuthMode" /\ ~server /\ docState.kind = "malformed"
        /\ ev.ret = "cookie"
C27_WitnessServer ==
    ev.op = "isLtAuthenticated" /\ server /\ docState.kind = "record"
        /\ docState.user \in Users /\ ev.ret = FALSE
C27_WitnessToken ==
    ev.op = "getLtJwtToken" /\ ~server /\ docToken.kind = "malformed"
        /\ ev.ret = NoToken

-----------------------------------------------------------------------------
(* SpecAuth: the session orchestrator *)

NextAuth ==
    \/ UseLtAuth
    \/ \E u \in Users \cup {NoUser}, mode \in Modes : SetUser(u, mode)
    \/ ClearUser
    \/ SwitchToJwtModeCall
    \/ RefreshJwtTokenCall
    \/ \E kind \in {"prefetch", "explicit"}, answer \in TokenAnswers :
           TokenAnswer(kind, answer)
    \/ \E url \in Urls : FetchWithAuthCall(url)
    \/ \E status \in Outcomes : FetchWithAuthFirst(status)
    \/ \E answer \in TokenAnswers : FetchWithAuthToken(answer)
    \/ \E status \in Outcomes : FetchWithAuthRetry(status)
    \/ \E session \in Sessions : ValidateSession(session)
    \/ SignInEmailCall
    \/ \E result \in LoginResults : SignInEmailSettled(result)
    \/ SignUpEmailCall
    \/ \E result \in LoginResults : SignUpEmailSettled(result)
    \/ SignOutCall
    \/ \E outcome \in {"resolved", "threw"} : SignOutSettled(outcome)

InitAuthSpec == InitStoreEmpty /\ InitAuth /\ InitClient /\ InitWire /\ InitSide

SpecAuth == InitAuthSpec /\ [][NextAuth]_vars

\* C4: whether authClient.signOut() resolves or throws, signOut() leaves no
\* user, cookie mode and no token.
C4_SignOutAlwaysClears ==
    ev.op = "signOut" =>
        /\ user = NoUser
        /\ authMode = "cookie"
        /\ jwtToken = NoToken
        /\ ~isAuthenticated

C8_PrefetchKeepsCookieMode ==
    (ev.op = "prefetch" /\ ev.ok /\ ev.modeBefore = "cookie") =>
        /\ jwtToken = ev.token
        /\ authMode = "cookie"

\* C9: once authMode is 'jwt' it stays 'jwt' in every step that is not
\* clearUser, signOut, a login or an explicit setUser.
C9_Resets == {"clearUser", "signOut", "signIn", "signUp", "setUser"}

C9_JwtModeIsSticky ==
    [][(isJwtMode /\ ev'.op \notin C9_Resets) => isJwtMode']_vars

\* C10: isAuthenticated is true exactly when the user of the AuthState is
\* non-null, and that is exactly when the last setUser had a non-null user
\* with no clearUser after it, in either mode, with or without a token.
C10_AuthenticatedIffUser ==
    /\ isAuthenticated <=> (authState.kind = "record" /\ authState.user # NoUser)
    /\ isAuthenticated <=> lastSetUser # NoUser
    /\ user = lastSetUser

C10_Witness ==
    /\ isAuthenticated
    /\ ev.op = "prefetch"
    /\ ev.ok
    /\ isJwtMode

\* an endpoint below a passkey or two-factor path
C12_CookiePath(url) ==
    \E i \in 1..(Len(url) - 1) : url[i] \in {"passkey", "two-factor"}

C13_ClearUserResets ==
    ev.op = "clearUser" =>
        /\ authState = Record(NoUser, "cookie")
        /\ docState = Record(NoUser, "cookie")
        /\ jwtToken = NoToken
        /\ docToken = TokAbsent
        /\ getLtJwtToken(docToken) = NoToken
        /\ ~isAuthenticated

C13_Witness ==
    /\ ev.op = "clearUser"
    /\ ev.wasJwt
    /\ authState = Record(NoUser, "cookie")
    /\ jwtToken = NoToken

\* C17: when signIn.email / signUp.email settles with a result that carries
\* a token, with or without user data, the session is in jwt mode with that
\* token stored; with user data and no token the state is that user in
\* cookie mode.
C17_LoginAdoptsMode ==
    [][\A result \in LoginResults :
          (SignInEmailSettled(result) \/ SignUpEmailSettled(result)) =>
              /\ result.kind \in {"tokenUser", "token"} =>
                     (isJwtMode' /\ jwtToken' = result.token)
              /\ result.kind = "user" =>
                     authState' = Record(result.user, "cookie")]_vars

-----------------------------------------------------------------------------
(* SpecClient: the plugin registry and the auth client singleton *)

NextClient ==
    \/ \E plugins \in PluginLists : RegisterLtAuthPlugins(plugins)
    \/ ClearLtAuthPluginRegistry
    \/ ResetLtAuthClientSingleton
    \/ \E config \in {NoConfig} \cup Configs : GetOrCreateLtAuthClient(config)

InitClientSpec == InitStoreEmpty /\ InitAuth /\ InitClient /\ InitWire /\ InitSide

SpecClient == InitClientSpec /\ [][NextClient]_vars

\* the plugins of a list
PluginsOf(list) == {list[i] : i \in 1..Len(list)}

\* C6: a getOrCreateLtAuthClient() call that follows registerLtAuthPlugins
\* calls made while the singleton existed constructs exactly one new instance,
\* whose plugin list holds every plugin of the registry; a call with no
\* registration or reset since the last one returns the instance that was
\* there and constructs nothing.
C6_RebuildOnce ==
    cev.op = "getOrCreate" =>
        /\ singleton # NoClient
        /\ cev.wasPending =>
               /\ cev.before # NoClient
               /\ cev.constructed = 1
               /\ singleton.id # cev.before.id
               /\ PluginsOf(registry) \subseteq PluginsOf(singleton.plugins)
        /\ (~cev.wasPending /\ cev.before # NoClient) =>
               /\ cev.constructed = 0
               /\ singleton = cev.before

C6_Witness ==
    /\ cev.op = "getOrCreate"
    /\ cev.wasPending
    /\ cev.constructed = 1
    /\ Len(registry) = 2
    /\ PluginsOf(registry) \subseteq PluginsOf(singleton.plugins)
    /\ built = 2


\* C21: registerLtAuthPlugins neither constructs nor discards a client; a
\* client is constructed only by getOrCreateLtAuthClient and the singleton
\* changes only there or in resetLtAuthClientSingleton; every client that
\* getOrCreateLtAuthClient constructs, after a registration or after a
\* reset, is built from the configuration most recently passed to it, or
\* from the empty configuration when none was ever passed.
C21_LazyRebuild ==
    [][/\ (\E plugins \in PluginLists : RegisterLtAuthPlugins(plugins)) =>
             (singleton' = singleton /\ built' = built)
       /\ built' # built => cev'.op = "getOrCreate"
       /\ singleton' # singleton => cev'.op \in {"getOrCreate", "reset"}
       /\ (cev'.op = "getOrCreate" /\ cev'.constructed = 1) =>
             /\ singleton'.id = built'
             /\ singleton'.config =
                    IF cev'.last # NoConfig THEN cev'.last ELSE EmptyConfig
             /\ singleton'.plugins = clientPlugins(singleton'.config, registry')
       /\ (cev'.op = "getOrCreate" /\ cev'.constructed = 0) =>
             singleton' = singleton]_vars

\* a stale client was rebuilt by a call without a configuration, from the
\* configuration an earlier call had passed
C21_Witness ==
    /\ cev.op = "getOrCreate" /\ cev.constructed = 1 /\ cev.wasPending
    /\ cev.passed = NoConfig /\ cev.last \in Configs
    /\ singleton.config = cev.last
    /\ built >= 2

\* the same after resetLtAuthClientSingleton
C21_WitnessReset ==
    /\ cev.op = "getOrCreate" /\ cev.constructed = 1 /\ ~cev.wasPending
    /\ cev.before = NoClient /\ cev.passed = NoConfig /\ cev.last \in Configs
    /\ built >= 2


------------------------------------------------------------------------------
(* SpecPlugins: the plugin list of a client made by the factory *)

NextPlugins ==
    \/ \E plugins \in PluginLists : RegisterLtAuthPlugins(plugins)
    \/ ClearLtAuthPluginRegistry
    \/ \E config \in {NoConfig} \cup FactoryConfigs : CreateLtAuthClient(config)

SpecPlugins == InitClientSpec /\ [][NextPlugins]_vars

C22_Flag(config, plugin) ==
    CASE plugin = "admin"     -> config.enableAdmin
      [] plugin = "twoFactor" -> config.enableTwoFactor
      [] plugin = "passkey"   -> config.enablePasskey

\* C22: the plugin list of a client the factory has just made is the
\* sublist of <<admin, two-factor, passkey>> whose flag is not false (an
\* omitted flag counts as true), followed by the plugins of the config
\* argument in their order, followed by the registry as it stands, which
\* every registerLtAuthPlugins call extends at its end.
C22_PluginOrder ==
    /\ cev.op = "create" =>
          LET config == IF cev.passed # NoConfig THEN cev.passed ELSE EmptyConfig
              On(plugin) == C22_Flag(config, plugin) \in {"undefined", "true"}
          IN  cev.client.plugins =
                  SelectSeq(<<"admin", "twoFactor", "passkey">>, On)
                      \o config.plugins \o registry
    /\ cev.op = "register" =>
          \E plugins \in PluginLists :
              /\ Len(plugins) <= Len(registry)
              /\ SubSeq(registry, Len(registry) - Len(plugins) + 1,
                        Len(registry)) = plugins

\* a client with two-factor switched off, two plugins of its own and two
\* registered plugins was made
C22_Witness ==
    /\ cev.op = "create"
    /\ cev.passed # NoConfig /\ cev.passed.enableTwoFactor = "false"
    /\ cev.passed.enableAdmin = "undefined"
    /\ Len(cev.passed.plugins) = 2 /\ Len(registry) = 2
    /\ registry[1] # registry[2]
    /\ Len(cev.client.plugins) = 6

-----------------------------------------------------------------------------
(* SpecHash: what the credential-transmitting methods send *)

NextHash ==
    \/ \E p \in SignInParams, o \in Optional("options") : ClientSignInEmail(p, o)
    \/ \E p \in SignUpParams, o \in Optional("options") : ClientSignUpEmail(p, o)
    \/ \E p \in ChangePasswordParams, o \in Optional("options") :
           ClientChangePassword(p, o)
    \/ \E p \in ResetPasswordParams, o \in Optional("options") :
           ClientResetPassword(p, o)
    \/ \E p \in TwoFactorParams, o \in Optional("options") :
           ClientTwoFactorEnable(p, o)
    \/ \E p \in TwoFactorParams, o \in Optional("options") :
           ClientTwoFactorDisable(p, o)
    \/ \E p \in TwoFactorParams, o \in Optional("options") :
           ClientTwoFactorGenerateBackupCodes(p, o)
    \/ \E p \in SignUpParams : InitSetup(p)

InitHashSpec == InitStoreEmpty /\ InitAuth /\ InitClient /\ InitWire /\ InitSide

SpecHash == InitHashSpec /\ [][NextHash]_vars

PasswordFields == {"password", "currentPassword", "newPassword"}

\* C3: whatever a credential-transmitting method hands on has the fields it
\* was given; every password field holds the digest of the password, no
\* field holds a password, and every other field and the options are as given.
C3_OnlyDigestLeaves ==
    wire.method # "none" =>
        /\ DOMAIN wire.sent = DOMAIN wire.params
        /\ \A f \in DOMAIN wire.sent :
               /\ wire.sent[f] \notin Passwords
               /\ IF f \in PasswordFields
                  THEN wire.sent[f] = ltSha256(wire.params[f])
                  ELSE wire.sent[f] = wire.params[f]
        /\ wire.sentOptions = wire.options

C3_Witness ==
    /\ wire.method = "changePassword"
    /\ wire.params.currentPassword = "hunter2"
    /\ wire.params.newPassword = "secret"
    /\ wire.sent.currentPassword = ltSha256("hunter2")
    /\ wire.sent.newPassword = ltSha256("secret")

-----------------------------------------------------------------------------
(* SpecIntercept: the 401 interceptor over the session state *)

NextIntercept ==
    \/ \E url \in InterceptedUrls : HandleUnauthorized(url)
    \/ CooldownEnds
    \/ \E route \in Routes : Navigate(route)
    \/ \E u \in Users, m \in Modes : SetUser(u, m)

InitInterceptSpec ==
    /\ InitStoreEmpty /\ InitAuth /\ InitClient /\ InitWire
    /\ ic \in {IcIdle(route) : route \in Routes}
    /\ ft = setupFeatures(FtFresh)
    /\ pk = PkIdle(FALSE)
    /\ cx = CxIdle
    /\ server = FALSE
    /\ tk = TkFresh
    /\ tus = TusFresh(TRUE, 3)

SpecIntercept == InitInterceptSpec /\ [][NextIntercept]_vars

ExemptUrls == {<<"api", "iam", "token">>,
               <<"api", "iam", "passkey", "verify-registration">>}
PublicRoutes == {<<"auth", "login">>, <<"auth", "2fa">>}

\* C30: a 401 makes the interceptor clear the session and redirect only when
\* the URL is no auth endpoint, the route is not public and the session is
\* authenticated; on an auth endpoint or a public route the call changes
\* nothing, the cooldown flag and timer included; an unauthenticated
\* session is never cleared or redirected.
C30_InterceptorGates ==
    [][\A url \in InterceptedUrls :
          HandleUnauthorized(url) =>
              /\ (storeVars' # storeVars \/ ic'.clears # ic.clears
                     \/ ic'.redirects # ic.redirects) =>
                    (url \notin ExemptUrls /\ ic.route \notin PublicRoutes
                       /\ isAuthenticated)
              /\ (url \in ExemptUrls \/ ic.route \in PublicRoutes) =>
                    (ic' = ic /\ UNCHANGED <<storeVars, lastSetUser>>)
              /\ ~isAuthenticated =>
                    (UNCHANGED <<storeVars, lastSetUser>>
                       /\ ic'.clears = ic.clears
                       /\ ic'.redirects = ic.redirects)]_vars

\* a 401 on a data URL, away from the public pages, cleared an authenticated
\* session and redirected
C30_Witness ==
    /\ ev = [op |-> "handleUnauthorized", url |-> <<"api", "data">>]
    /\ ic.route = <<"dashboard">>
    /\ ic.authedAtStart /\ ic.since = 1
    /\ ic.clears = 1 /\ ic.redirects = 1
    /\ ~isAuthenticated

\* a 401 of the token endpoint left an authenticated session and the flag
\* alone; so did a 401 on a data URL seen on the 2FA page; a 401 on a data
\* URL without a session set the flag and did nothing else
C30_WitnessEndpoint ==
    /\ ev = [op |-> "handleUnauthorized", url |-> <<"api", "iam", "token">>]
    /\ ic.route = <<"dashboard">>
    /\ isAuthenticated /\ ~ic.isHandling401 /\ ic.timers = 0

C30_WitnessPublic ==
    /\ ev = [op |-> "handleUnauthorized", url |-> <<"api", "data">>]
    /\ ic.route = <<"auth", "2fa">>
    /\ isAuthenticated /\ ~ic.isHandling401 /\ ic.timers = 0

C30_WitnessAnonymous ==
    /\ ev = [op |-> "handleUnauthorized", url |-> <<"api", "iam", "get-session">>]
    /\ ic.isHandling401 /\ ~ic.authedAtStart /\ ic.since = 1
    /\ ic.clears = 0 /\ ic.redirects = 0
    /\ docState = Absent

-----------------------------------------------------------------------------
(* SpecFeatures: the feature map from the first useLtAuth() on *)

NextFeatures ==
    \/ UseLtAuth
    \/ FetchFeaturesCall
    \/ \E result \in FeatureResults : FetchFeaturesSettled(result)

InitFeaturesSpec ==
    /\ InitStoreEmpty /\ InitAuth /\ InitClient /\ InitWire
    /\ ic = IcIdle(<<"dashboard">>)
    /\ ft = FtFresh
    /\ pk = PkIdle(FALSE)
    /\ cx = CxIdle
    /\ server = FALSE
    /\ tk = TkFresh
    /\ tus = TusFresh(TRUE, 3)

SpecFeatures == InitFeaturesSpec /\ [][NextFeatures]_vars

\* C18: once a fetch of the features endpoint has succeeded no further
\* request is issued, by fetchFeatures() or by a new useLtAuth(); a
\* fetchFeatures() whose request fails resolves with the map known so far.
C18_FeaturesFetchedOnce ==
    /\ ft.late = 0
    /\ ft.last.op \in {"falsy", "throws"} => ft.last.ret = ft.features
-----------------------------------------------------------------------------
(* SpecSwitch: the mode switch in both layers, over one store *)

NextSwitch ==
    \/ \E m \in Modes : SetUser("u1", m)
    \/ LtAuthFetchCall
    \/ \E status \in {"200", "401"} : LtAuthFetchFirst(status)
    \/ \E answer \in TokenAnswers : LtAuthFetchToken(answer)
    \/ \E status \in {"200", "401"} : LtAuthFetchRetry(status)
    \/ \E url \in Urls : FetchWithAuthCall(url)
    \/ \E status \in {"200", "401"} : FetchWithAuthFirst(status)
    \/ \E answer \in TokenAnswers : FetchWithAuthToken(answer)
    \/ \E status \in {"200", "401"} : FetchWithAuthRetry(status)
    \/ SwitchToJwtModeCall
    \/ \E answer \in TokenAnswers : TokenAnswer("explicit", answer)

SpecSwitch == InitAuthSpec /\ [][NextSwitch]_vars

\* the answers of the token endpoint that make a switch fail
FailedAnswers == {a \in TokenAnswers : a.kind # "ok"}

\* C15: a switch whose token request fails (not OK, OK without a token, or
\* it throws) returns false, leaves the stored mode and token as they were,
\* and the authFetch / fetchWithAuth call it belongs to returns the 401 it
\* got, without a retry.
C15_FailedSwitchChangesNothing ==
    [][\A answer \in FailedAnswers :
          /\ LtAuthFetchToken(answer) =>
                 /\ ~attemptLtJwtSwitch(answer)
                 /\ UNCHANGED storeVars
                 /\ af'.pc = "done"
                 /\ af'.result = [req |-> 1, status |-> "401"]
                 /\ af'.reqs = 1
          /\ FetchWithAuthToken(answer) =>
                 /\ UNCHANGED storeVars
                 /\ fw' = FwIdle
                 /\ ev' = [op |-> "fetchWithAuth", req |-> 1, status |-> "401"]
          /\ TokenAnswer("explicit", answer) =>
                 /\ UNCHANGED storeVars
                 /\ ~ev'.ok]_vars

C15_Witness ==
    /\ af.pc = "done"
    /\ af.answer.kind = "throws"
    /\ af.result = [req |-> 1, status |-> "401"]
    /\ ev = [op |-> "fetchWithAuth", req |-> 1, status |-> "401"]
    /\ isAuthenticated
    /\ ~isJwtMode
-----------------------------------------------------------------------------
(* SpecRefresh: refreshJwtToken() and switchToJwtMode() called by the
   application *)

NextRefresh ==
    \/ \E u \in Users \cup {NoUser}, m \in ModeArgs : SetUser(u, m)
    \/ ClearUser
    \/ SwitchToJwtModeCall
    \/ RefreshJwtTokenCall
    \/ \E answer \in TokenAnswers : TokenAnswer("explicit", answer)

SpecRefresh == InitAuthSpec /\ [][NextRefresh]_vars

\* C16: refreshJwtToken() called outside jwt mode or without a token returns
\* false, issues no request and changes nothing; called in jwt mode with a
\* token it starts the same token request as switchToJwtMode(), and settles
\* as that one does.
C16_RefreshOnlyInJwtMode ==
    [][RefreshJwtTokenCall =>
          IF isJwtMode /\ jwtToken # NoToken
          THEN /\ tokenReqs'.explicit = tokenReqs.explicit + 1
               /\ ev'.op = "call"
               /\ UNCHANGED storeVars
               /\ SwitchToJwtModeCall
          ELSE /\ ev' = [op |-> "refreshJwtToken", ret |-> FALSE]
               /\ UNCHANGED <<storeVars, tokenReqs>>]_vars

C16_Witness ==
    /\ ev = [op |-> "refreshJwtToken", ret |-> FALSE]
    /\ jwtToken # NoToken
    /\ ~isJwtMode
    /\ isAuthenticated
    /\ tokenReqs.explicit = 0


\* C29: setUser(user, mode) leaves exactly {user, authMode: mode} in the ref
\* and in the store, 'cookie' standing for an omitted mode, whatever the
\* record was before, and leaves the bearer token as it was.
C29_SetUserReplacesState ==
    [][\A u \in Users \cup {NoUser}, m \in ModeArgs :
          SetUser(u, m) =>
              /\ authState' = Record(u, IF m = "undefined" THEN "cookie" ELSE m)
              /\ docState' = authState'
              /\ DOMAIN authState' = {"kind", "user", "authMode"}
              /\ jwtToken' = jwtToken
              /\ docToken' = docToken]_vars

\* setUser(user) without a mode was called in jwt mode with a token stored:
\* the session is in cookie mode and the token is still there
C29_Witness ==
    /\ ev.op = "setUser" /\ ev.mode = "undefined" /\ ev.was = "jwt"
    /\ authState = Record("u1", "cookie")
    /\ docState = authState
    /\ jwtToken # NoToken
    /\ docToken # TokAbsent

\* the user of a cookie-mode session was replaced by a jwt-mode one
C29_WitnessJwt ==
    /\ ev.op = "setUser" /\ ev.mode = "jwt"
    /\ authState = Record("u2", "jwt")

------------------------------------------------------------------------------
(* Passkey registration: how a failed ceremony is reported *)

NextPasskey ==
    \/ RegisterPasskeyCall
    \/ \E body \in OptionsBodies : RegisterPasskeyOptions(body)
    \/ \E outcome \in CeremonyOutcomes : RegisterPasskeyCreate(outcome)
    \/ \E body \in Bodies : RegisterPasskeyVerify(body)
    \/ \E status \in Outcomes : FetchWithAuthFirst(status)
    \/ \E answer \in TokenAnswers : FetchWithAuthToken(answer)
    \/ \E status \in Outcomes : FetchWithAuthRetry(status)
    \/ \E m \in Modes : SetUser("u1", m)

InitPasskeySpec ==
    /\ InitStoreEmpty /\ InitAuth /\ InitClient /\ InitWire
    /\ ic = IcIdle(<<"dashboard">>)
    /\ ft = setupFeatures(FtFresh)
    /\ pk \in {PkIdle(i18n) : i18n \in BOOLEAN}
    /\ cx = CxIdle
    /\ server = FALSE
    /\ tk = TkFresh
    /\ tus = TusFresh(TRUE, 3)

SpecPasskey == InitPasskeySpec /\ [][NextPasskey]_vars

C19_Caught == pk.op = "registerPasskey" /\ pk.pc = "done" /\ pk.cause = "caught"
C19_Cancelled == pk.err.isError /\ pk.err.name = "NotAllowedError"
C19_Duplicate ==
    /\ pk.err.isError /\ ~C19_Cancelled
    /\ \/ pk.err.name = "InvalidStateError"
       \/ includes(pk.err.message, <<"already", "registered">>)

\* C19: a registerPasskey that caught a platform error reports exactly one
\* of three mutually different messages: the cancellation message for a
\* NotAllowedError (and never the duplicate or the generic one), the
\* duplicate message for an InvalidStateError or an "already registered"
\* message, and otherwise a generic message that is neither of the two; a
\* verification the server rejected with a message reports that message.
C19_RegisterPasskeyErrors ==
    /\ Cardinality({passkeyCreationAborted(pk.i18n),
                    passkeyAlreadyRegistered(pk.i18n),
                    passkeyRegisterFailed(pk.i18n)}) = 3
    /\ C19_Caught =>
         /\ ~pk.result.success
         /\ C19_Cancelled =>
              pk.result.error = passkeyCreationAborted(pk.i18n)
         /\ C19_Duplicate =>
              pk.result.error = passkeyAlreadyRegistered(pk.i18n)
         /\ (~C19_Cancelled /\ ~C19_Duplicate) =>
              /\ pk.result.error \notin {passkeyCreationAborted(pk.i18n),
                                         passkeyAlreadyRegistered(pk.i18n)}
              /\ pk.result.error \in {pk.err.message, passkeyRegisterFailed(pk.i18n)}
    /\ (pk.op = "registerPasskey" /\ pk.cause = "verifyRejected"
            /\ pk.server # NoMessage) =>
         pk.result = pkFailure(pk.server)

\* a cancellation whose message also reads like a duplicate was reported,
\* and so was a duplicate, a generic failure and a server rejection
C19_Witness ==
    /\ C19_Caught /\ C19_Cancelled
    /\ includes(pk.err.message, <<"already", "registered">>)
    /\ pk.result.error = passkeyCreationAborted(pk.i18n)
C19_WitnessDuplicate == C19_Caught /\ C19_Duplicate
C19_WitnessGeneric == C19_Caught /\ ~C19_Cancelled /\ ~C19_Duplicate
C19_WitnessServer ==
    pk.op = "registerPasskey" /\ pk.cause = "verifyRejected" /\ pk.server # NoMessage

------------------------------------------------------------------------------
(* The loading flag over the operations that set it, one at a time *)

NextLoading ==
    \/ ops = {} /\ SignInEmailCall
    \/ ops = {} /\ SignUpEmailCall
    \/ ops = {} /\ SignOutCall
    \/ ops = {} /\ AuthenticateWithPasskeyCall
    \/ ops = {} /\ RegisterPasskeyCall
    \/ \E result \in LoginResults : SignInEmailSettled(result)
    \/ \E result \in LoginResults : SignUpEmailSettled(result)
    \/ \E outcome \in {"resolved", "threw"} : SignOutSettled(outcome)
    \/ \E body \in OptionsBodies : AuthenticateWithPasskeyOptions(body)
    \/ \E outcome \in CeremonyOutcomes : AuthenticateWithPasskeyGet(outcome)
    \/ \E body \in AuthBodies : AuthenticateWithPasskeyVerify(body)
    \/ \E body \in AuthBodies : AuthenticateWithPasskeySession(body)
    \/ \E body \in OptionsBodies : RegisterPasskeyOptions(body)
    \/ \E outcome \in CeremonyOutcomes : RegisterPasskeyCreate(outcome)
    \/ \E body \in Bodies : RegisterPasskeyVerify(body)
    \/ \E status \in Outcomes : FetchWithAuthFirst(status)
    \/ \E answer \in TokenAnswers : FetchWithAuthToken(answer)
    \/ \E status \in Outcomes : FetchWithAuthRetry(status)
    \/ \E answer \in TokenAnswers : TokenAnswer("prefetch", answer)

SpecLoading == InitPasskeySpec /\ [][NextLoading]_vars

\* C20: with signIn.email, signUp.email, signOut, authenticateWithPasskey
\* and registerPasskey run one at a time, isLoading is true as long as one
\* of them is in flight and false whenever none is, however the last one
\* settled.
C20_LoadingUntilSettled ==
    /\ Cardinality(ops) <= 1
    /\ ops # {} => isLoading
    /\ ops = {} => ~isLoading

\* an authentication ceremony that threw has settled, and so has a
\* signOut that threw, a login that threw and a registration that failed
C20_Witness ==
    /\ pk.op = "authenticateWithPasskey" /\ pk.pc = "done" /\ pk.cause = "caught"
    /\ ops = {} /\ ~isLoading
C20_WitnessSignOut ==
    ev.op = "signOut" /\ ev.outcome = "threw" /\ ~isLoading
C20_WitnessLogin ==
    ev.op \in {"signIn", "signUp"} /\ ev.result = "throws" /\ ~isLoading
C20_WitnessRegister ==
    pk.op = "registerPasskey" /\ pk.pc = "done" /\ ~pk.result.success /\ ~isLoading
C20_WitnessRunning ==
    pk.op = "authenticateWithPasskey" /\ pk.pc = "sessionResponse" /\ isLoading

------------------------------------------------------------------------------
(* SpecCodec: encoding a buffer and decoding the text again *)

NextCodec ==
    \/ LtArrayBufferToBase64Url
    \/ LtBase64UrlToUint8Array

InitCodecSpec ==
    /\ InitStoreEmpty /\ InitAuth /\ InitClient /\ InitWire
    /\ ic = IcIdle(<<"dashboard">>)
    /\ ft = setupFeatures(FtFresh)
    /\ pk = PkIdle(FALSE)
    /\ cx \in {CxGiven(bytes) : bytes \in ByteSeqs(MaxBytes)}
    /\ server = FALSE
    /\ tk = TkFresh
    /\ tus = TusFresh(TRUE, 3)

SpecCodec == InitCodecSpec /\ [][NextCodec]_vars

\* C23: the text made from a byte sequence holds none of '+', '/', '=',
\* and decoding it gives the byte sequence back.
C23_CodecRoundTrip ==
    /\ cx.pc \in {"encoded", "decoded"} =>
          \A i \in 1..Len(cx.text) : cx.text[i] \notin {"+", "/", "="}
    /\ cx.pc = "decoded" => cx.out = [kind |-> "bytes", bytes |-> cx.bytes]

\* two bytes 0xFB 0xFF, whose base64 text has '+', '/' and one '=', went
\* through the codec; so did the empty buffer and "Hello"-like lengths
C23_Witness ==
    /\ cx.pc = "decoded" /\ cx.bytes = <<251, 255>>
    /\ cx.text = <<"-", "_", "8">>
    /\ cx.out.bytes = <<251, 255>>
C23_WitnessEmpty == cx.pc = "decoded" /\ cx.bytes = <<>> /\ cx.text = <<>>
C23_WitnessOne == cx.pc = "decoded" /\ cx.bytes = <<0>> /\ cx.text = <<"A", "A">>
C23_WitnessFour ==
    cx.pc = "decoded" /\ cx.bytes = <<72, 0, 255, 1>> /\ Len(cx.text) = 6

------------------------------------------------------------------------------
(* SpecToken: the bearer token record written by setLtJwtToken() and by the
   jwtToken ref, and read back by getLtJwtToken(), beside every AuthState
   record *)

TokenTexts == Texts(TokenChars, MaxTokenLen)
TokenArgs == {Null} \cup {Str(text) : text \in TokenTexts}

NextToken ==
    \/ \E token \in TokenArgs : SetLtJwtTokenText(token)
    \/ \E token \in TokenArgs : UseCookieTokenText(token)
    \/ GetLtJwtTokenText

InitTokenSpec ==
    /\ docState \in {Absent, Malformed} \cup StateRecords
    /\ docToken = TokAbsent
    /\ authState = CookieRefState(docState)
    /\ jwtToken = CookieRefToken(docToken)
    /\ InitAuth /\ InitClient /\ InitWire
    /\ ic = IcIdle(<<"dashboard">>)
    /\ ft = setupFeatures(FtFresh)
    /\ pk = PkIdle(FALSE)
    /\ cx = CxIdle
    /\ server = FALSE
    /\ tk = TkFresh
    /\ tus = TusFresh(TRUE, 3)

SpecToken == InitTokenSpec /\ [][NextToken]_vars

\* a text that getLtJwtToken() takes for a JSON-quoted one
quoted(text) == text # <<>> /\ Head(text) = Quote /\ text[Len(text)] = Quote

\* C28: getLtJwtToken() after setLtJwtToken(t) returns t for every non-empty
\* token t (the record is then JSON-quoted) and null after setLtJwtToken(null);
\* a record holding the raw string t, as the jwtToken ref writes it, reads
\* as t as well; no such call changes the AuthState record.
C28_TokenRoundTrip ==
    [][/\ (tk'.op = "getLtJwtToken" /\ tk'.by = "setLtJwtToken") =>
            tk'.read = (IF tk.token.text # <<>> THEN tk.token ELSE Null)
       /\ (tk'.op = "getLtJwtToken" /\ tk'.by = "useCookie"
             /\ tk.token.text # <<>> /\ ~quoted(tk.token.text)) =>
            tk'.read = tk.token
       /\ tk' # tk => (docState' = docState /\ authState' = authState)]_vars

\* a token holding a quote and a backslash was set and read back beside a
\* jwt-mode AuthState record
C28_Witness ==
    /\ tk.op = "getLtJwtToken" /\ tk.by = "setLtJwtToken"
    /\ tk.token = Str(<<Quote, Backslash>>) /\ tk.read = tk.token
    /\ docState.kind = "record" /\ docState.authMode = "jwt"

\* a raw record was read back; null was set and read back
C28_WitnessRaw ==
    /\ tk.op = "getLtJwtToken" /\ tk.by = "useCookie"
    /\ tk.token = Str(<<"e", ".">>) /\ tk.read = tk.token

C28_WitnessNull ==
    /\ tk.op = "getLtJwtToken" /\ tk.by = "setLtJwtToken"
    /\ tk.token = Null /\ tk.read = Null /\ tk.record = NoRecord


\* the verification of a passkey login succeeded
C31_Verified == pk.status = "200"

\* C31: a passkey login whose verification response carries user data ends
\* with that user in cookie mode; one whose response carries only a session
\* token has the token stored and authMode 'jwt' from then on until it
\* returns, whatever the get-session request brings, and returns success.
C31_PasskeyLoginAdopts ==
    [][\A body \in AuthBodies :
          /\ (AuthenticateWithPasskeyVerify(body) /\ C31_Verified
                /\ body.kind = "user") =>
                 /\ authState' = Record(body.user, "cookie")
                 /\ pk'.result = pkSuccess(body.user)
          /\ (AuthenticateWithPasskeyVerify(body) /\ C31_Verified
                /\ body.kind = "session") =>
                 /\ jwtToken' = body.token
                 /\ authMode' = "jwt"
          /\ AuthenticateWithPasskeySession(body) =>
                 /\ pk'.result.success
                 /\ jwtToken' = jwtToken
                 /\ authMode' = "jwt"]_vars


\* how a ceremony that did not succeed can have ended
FailureCauses == {"caught", "optionsRejected", "null", "verifyRejected"}

C32_WitnessOptions ==
    /\ pk.op = "authenticateWithPasskey" /\ pk.pc = "done"
    /\ pk.cause = "optionsRejected" /\ pk.result.error = passkeyError(pk.i18n)
C32_WitnessThrown ==
    /\ pk.op = "authenticateWithPasskey" /\ pk.pc = "done"
    /\ pk.cause = "caught" /\ pk.err = FetchError
    /\ pk.result = pkFailure(FetchError.message)
C32_WitnessNull ==
    /\ pk.op = "authenticateWithPasskey" /\ pk.pc = "done"
    /\ pk.cause = "null" /\ pk.result.error = noPasskeySelected(pk.i18n)
C32_WitnessNoError ==
    /\ pk.op = "authenticateWithPasskey" /\ pk.pc = "done"
    /\ pk.cause = "caught" /\ ~pk.err.isError
    /\ pk.result.error = passkeyFailed(pk.i18n)
C32_WitnessVerify ==
    /\ pk.op = "registerPasskey" /\ pk.pc = "done"
    /\ pk.cause = "verifyRejected" /\ pk.server = NoMessage
    /\ pk.result.error = passkeyRegisterFailed(pk.i18n)
C32_WitnessBody ==
    /\ pk.op = "authenticateWithPasskey" /\ pk.pc = "done"
    /\ pk.cause = "caught" /\ pk.err = JsonError /\ pk.status = "401"


\* a step that starts a ceremony, and a state in which one is in flight
C33_Starts == AuthenticateWithPasskeyCall \/ RegisterPasskeyCall
C33_InFlight == pk.pc \notin {"idle", "done"}

\* C33: from the call of a passkey ceremony to its return the user of the
\* AuthState changes in one step only, the one in which
\* authenticateWithPasskey returns success; a ceremony that fails, and
\* every registerPasskey, leaves the user as it was.
C33_FailedCeremonyKeepsUser ==
    [][/\ C33_Starts => user' = user
       /\ (C33_InFlight /\ user' # user) =>
              /\ pk.op = "authenticateWithPasskey"
              /\ pk'.pc = "done"
              /\ pk'.result.success]_vars

\* a registration failed after its options request had fallen back to jwt
\* mode: the user is still there
C33_Witness ==
    /\ pk.op = "registerPasskey" /\ pk.pc = "done" /\ ~pk.result.success
    /\ user = "u1" /\ authMode = "jwt" /\ jwtToken # NoToken

\* a registration succeeded and a passkey login failed with a user present
C33_WitnessRegistered ==
    /\ pk.op = "registerPasskey" /\ pk.pc = "done" /\ pk.result.success
    /\ user = "u1"
C33_WitnessLogin ==
    /\ pk.op = "authenticateWithPasskey" /\ pk.pc = "done" /\ ~pk.result.success
    /\ pk.cause = "verifyRejected" /\ user = "u2"

-----------------------------------------------------------------------------
(* SpecGuarded: ltAuthFetch and fetchWithAuth, one call at a time, with the
   interceptor installed on the global fetch *)

NextGuarded ==
    \/ fw.pc = "idle" /\ af.pc \in {"idle", "done"}
          /\ \E m \in Modes : SetUser("u1", m)
    \/ fw.pc = "idle" /\ af.pc \in {"idle", "done"}
          /\ \E route \in Routes : Navigate(route)
    \/ CooldownEnds
    \/ af.pc \in {"idle", "done"} /\ \E url \in Urls : FetchWithAuthCall(url)
    \/ \E status \in {"200", "401"} : PatchedFetchWithAuthFirst(status)
    \/ \E answer \in TokenAnswers : FetchWithAuthToken(answer)
    \/ \E status \in {"200", "401"} : PatchedFetchWithAuthRetry(status)
    \/ fw.pc = "idle" /\ \E url \in Urls : PatchedLtAuthFetchCall(url)
    \/ \E status \in {"200", "401"} : PatchedLtAuthFetchFirst(status)
    \/ \E answer \in TokenAnswers : LtAuthFetchToken(answer)
    \/ \E status \in {"200", "401"} : PatchedLtAuthFetchRetry(status)

SpecGuarded == InitInterceptSpec /\ [][NextGuarded]_vars

\* C34: with the interceptor installed, a 401 that ltAuthFetch or
\* fetchWithAuth receives for an authenticated cookie-mode session starts
\* the token request, and the interceptor has not cleared the session or
\* redirected by then; a token request that succeeds leads to the retry
\* with the bearer token.
C34_FallbackBeforeInterceptor ==
    [][/\ (PatchedFetchWithAuthFirst("401") /\ isAuthenticated /\ ~isJwtMode) =>
              /\ fw'.pc = "token"
              /\ isAuthenticated'
              /\ ic'.clears = ic.clears /\ ic'.redirects = ic.redirects
       /\ (PatchedLtAuthFetchFirst("401") /\ isLtAuthenticated(docState)
             /\ af.authMode = "cookie") =>
              /\ af'.pc = "token"
              /\ isLtAuthenticated(docState')
              /\ ic'.clears = ic.clears /\ ic'.redirects = ic.redirects
       /\ \A answer \in TokenAnswers :
              (FetchWithAuthToken(answer) /\ answer.kind = "ok") =>
                  (fw'.pc = "retry" /\ fw'.bearer = answer.token /\ isJwtMode')]_vars


\* the session as clearUser() leaves it
C35_LoggedOut ==
    /\ lastSetUser = NoUser /\ ~isAuthenticated
    /\ jwtToken = NoToken /\ docToken = TokAbsent
    /\ authMode = "cookie"

\* C35: after clearUser() or signOut() no bearer token is stored and
\* authMode is 'cookie' until the next login; the answer to a token
\* pre-fetch that was in flight at logout does not change that.
C35_LogoutIsFinal ==
    [][\A answer \in TokenAnswers :
          (C35_LoggedOut /\ TokenAnswer("prefetch", answer)) =>
              /\ jwtToken' = NoToken
              /\ docToken' = TokAbsent
              /\ authMode' = "cookie"]_vars

-----------------------------------------------------------------------------
(* SpecOrchestrator: the operations of useLtAuth() that write the session,
   from a first page load on; those that set isLoading run one at a time *)

\* the inputs of SpecOrchestrator: one user, every token, one message-free
\* body of each kind, and of the platform errors a cancellation
OneUser(set) == {x \in set : x.user \in {NoUser, "u1"}}
LoginCeremonyOutcomes ==
    {o \in CeremonyOutcomes :
        o.kind = "throws" =>
            (o.err.isError /\ o.err.name = "NotAllowedError"
               /\ o.err.message = <<"timed", "out">>)}
LoginOptionsBodies == {b \in OptionsBodies : b.message = NoMessage}
LoginAuthBodies == {b \in OneUser(AuthBodies) : b.message = NoMessage}
Idle == ops = {} /\ fw.pc = "idle"

NextOrchestrator ==
    \/ Idle /\ SignInEmailCall
    \/ Idle /\ SignUpEmailCall
    \/ Idle /\ SignOutCall
    \/ Idle /\ AuthenticateWithPasskeyCall
    \/ \E result \in OneUser(LoginResults) : SignInEmailSettled(result)
    \/ \E result \in OneUser(LoginResults) : SignUpEmailSettled(result)
    \/ \E outcome \in {"resolved", "threw"} : SignOutSettled(outcome)
    \/ \E body \in LoginOptionsBodies : AuthenticateWithPasskeyOptions(body)
    \/ \E outcome \in LoginCeremonyOutcomes : AuthenticateWithPasskeyGet(outcome)
    \/ \E body \in LoginAuthBodies : AuthenticateWithPasskeyVerify(body)
    \/ \E body \in LoginAuthBodies : AuthenticateWithPasskeySession(body)
    \/ \E status \in Outcomes : FetchWithAuthFirst(status)
    \/ \E answer \in TokenAnswers : FetchWithAuthToken(answer)
    \/ \E status \in Outcomes : FetchWithAuthRetry(status)
    \/ \E answer \in TokenAnswers : TokenAnswer("prefetch", answer)
    \/ SwitchToJwtModeCall
    \/ RefreshJwtTokenCall
    \/ \E answer \in TokenAnswers : TokenAnswer("explicit", answer)
    \/ Idle /\ FetchWithAuthCall(<<"api", "data">>)
    \/ Idle /\ \E session \in OneUser(Sessions) : ValidateSession(session)
    \/ ClearUser

SpecOrchestrator == InitAuthSpec /\ [][NextOrchestrator]_vars

\* C36: whatever the orchestrator's operations did, a session in jwt mode
\* has a bearer token, in the ref and in the store.
C36_JwtModeHasToken ==
    isJwtMode => (jwtToken # NoToken /\ docToken # TokAbsent)

\* a login result with token and user put the session in jwt mode
C36_Witness ==
    /\ ev.op = "signIn" /\ isJwtMode /\ isAuthenticated
    /\ jwtToken # NoToken /\ docToken = CookieOfToken(jwtToken)

\* so did a switch by fetchWithAuth, a session-only passkey login, and a
\* pre-fetch answered after the logout
C36_WitnessFallback ==
    /\ ev.op = "fetchWithAuthSwitch" /\ isJwtMode /\ jwtToken # NoToken
C36_WitnessPasskey ==
    /\ pk.op = "authenticateWithPasskey" /\ pk.pc = "getSession"
    /\ isJwtMode /\ jwtToken # NoToken
C36_WitnessLate ==
    /\ ev.op = "prefetch" /\ lastSetUser = NoUser /\ ~isAuthenticated
    /\ isJwtMode /\ jwtToken # NoToken

-----------------------------------------------------------------------------
(* Overlapping operations of one useLtAuth() instance *)

\* C37: isLoading is true whenever at least one of signIn.email,
\* signUp.email, signOut, authenticateWithPasskey or registerPasskey is in
\* flight, also when two of them overlap and one settles before the other.
C37_LoadingWhileInFlight == ops # {} => isLoading

-----------------------------------------------------------------------------
(* A configuration passed while the singleton exists *)

\* C38: a getOrCreateLtAuthClient(config) call made while a singleton exists
\* that no registration has made stale returns that instance unchanged, also
\* when config differs from the configuration the instance was built with;
\* the configuration is recorded as _lastClientConfig, and the next instance
\* that is constructed, after a registration or a reset, is built with the
\* configuration recorded last.
C38_ConfigWaitsForRebuild ==
    cev.op = "getOrCreate" =>
        /\ (cev.before # NoClient /\ ~cev.wasPending /\ cev.passed # NoConfig) =>
               /\ singleton = cev.before
               /\ cev.constructed = 0
               /\ lastConfig = cev.passed
        /\ (cev.constructed = 1 /\ cev.last # NoConfig) =>
               singleton.config = cev.last

\* a call passed a configuration that differs from the one of the instance
\* it returned
C38_Witness ==
    /\ cev.op = "getOrCreate"
    /\ cev.before # NoClient /\ ~cev.wasPending
    /\ cev.passed # NoConfig
    /\ cev.passed # singleton.config
    /\ singleton = cev.before

\* after a registration a call without a configuration built an instance
\* with a configuration other than the one of the instance it replaced
C38_WitnessRebuild ==
    /\ cev.op = "getOrCreate"
    /\ cev.wasPending /\ cev.constructed = 1
    /\ cev.passed = NoConfig
    /\ cev.before # NoClient
    /\ singleton.config = cev.last
    /\ singleton.config # cev.before.config

\* after a reset a call without a configuration built the second instance
\* with the configuration recorded last
C38_WitnessReset ==
    /\ cev.op = "getOrCreate"
    /\ cev.before = NoClient /\ cev.constructed = 1
    /\ cev.passed = NoConfig
    /\ built = 2
    /\ singleton.config = cev.last
    /\ lastConfig # NoConfig

-----------------------------------------------------------------------------
(* SpecTus: the upload composable under every call of its user *)

InitTusSpec ==
    /\ InitStoreEmpty /\ InitAuth /\ InitClient /\ InitWire
    /\ ic = IcIdle(<<"dashboard">>)
    /\ ft = setupFeatures(FtFresh)
    /\ pk = PkIdle(FALSE)
    /\ cx = CxIdle
    /\ server = FALSE
    /\ tk = TkFresh
    /\ tus \in {TusFresh(autoStart, parallelUploads) :
                   autoStart \in BOOLEAN, parallelUploads \in ParallelOptions}

NextTus ==
    \/ \E n \in 1..MaxFiles : AddFilesCall(n)
    \/ AddFilesCreated
    \/ StartAll
    \/ \E id \in Ids : StartUpload(id)
    \/ \E id \in Ids : ResumeUpload(id)
    \/ ResumeAll
    \/ \E id \in Ids : RetryUpload(id)
    \/ \E id \in Ids : PauseUpload(id)
    \/ \E id \in Ids : CancelUpload(id)
    \/ \E id \in Ids : TusStart(id)
    \/ \E id \in Ids : OnSuccess(id)
    \/ \E id \in Ids : OnError(id)

SpecTus == InitTusSpec /\ [][NextTus]_vars

\* C39: the number of upload items with status 'uploading' never exceeds
\* parallelUploads, for every sequence of addFiles, startAll, startUpload,
\* resumeUpload, resumeAll, retryUpload, pauseUpload and cancelUpload calls.
C39_ParallelLimit == currentlyUploading(tus) <= parallelLimit(tus)

-----------------------------------------------------------------------------
(* SpecTusFair: autoStart uploads whose user only adds files; a pending    *)
(* createTusUpload resolves, a started transfer begins and a running one   *)
(* completes                                                               *)

InitTusAuto ==
    /\ InitStoreEmpty /\ InitAuth /\ InitClient /\ InitWire
    /\ ic = IcIdle(<<"dashboard">>)
    /\ ft = setupFeatures(FtFresh)
    /\ pk = PkIdle(FALSE)
    /\ cx = CxIdle
    /\ server = FALSE
    /\ tk = TkFresh
    /\ tus \in {TusFresh(TRUE, parallelUploads) : parallelUploads \in ParallelOptions}

NextTusAuto ==
    \/ \E n \in 1..MaxFiles : AddFilesCall(n)
    \/ AddFilesCreated
    \/ \E id \in Ids : TusStart(id)
    \/ \E id \in Ids : OnSuccess(id)

SpecTusFair ==
    /\ InitTusAuto
    /\ [][NextTusAuto]_vars
    /\ WF_vars(AddFilesCreated)
    /\ \A id \in Ids : WF_vars(TusStart(id)) /\ WF_vars(OnSuccess(id))

\* C40: with autoStart enabled every file passed to addFiles eventually
\* leaves status 'idle' and starts uploading without any further call by the
\* user, also when more files are added than parallelUploads, provided that
\* every running upload eventually completes.
C40_EveryFileStarts ==
    \A id \in Ids :
        (tus.uploadItems[id] = "idle") ~> (tus.uploadItems[id] = "uploading")

====
